---- MODULE Spec2Model ----
(***************************************************************************)
(* Model of the Slack service helpers of dispatch                          *)
(* (src/src/dispatch/plugins/dispatch_slack/service.py).                   *)
(*                                                                         *)
(*   SpecCall  : one invocation of make_call, the tenacity-decorated       *)
(*               wrapper around client.api_call (retry predicate, wait     *)
(*               function, stop condition, logging).                       *)
(*   SpecCache : the functools.lru_cache-d lookups keyed by a              *)
(*               WebClientWrapper and an argument.                         *)
(***************************************************************************)
EXTENDS Integers, Sequences, FiniteSets, TLC

VARIABLES
    pc,             \* make_call: "idle" | "calling" | "returned" | "raised"
    endpoint,       \* make_call: the endpoint argument
    kwargs,         \* make_call: the keyword arguments
    attempt_number, \* tenacity RetryCallState.attempt_number
    requests,       \* client.api_call invocations made so far (in order)
    outcomes,       \* what each api_call did (in order)
    sleeps,         \* the sleeps tenacity performed between attempts (in order)
    logs,           \* records written by log.warning in make_call
    result,         \* what the caller of make_call received
    cache,          \* lru_cache of each cached function: entries, least recently used first
    remote_calls,   \* make_call invocations issued by the cached lookups
    lookups,        \* cached lookups performed since the initial state
    used,           \* keys served by each cache (hit or stored), oldest first
    prevOp,         \* the cached lookup before the last one
    lastOp,         \* the last cached lookup: its arguments and what it did
    race,           \* the function and argument two threads look up concurrently
    tpc,            \* per thread: "start" | "missed" | "called" | "done"
    tval,           \* per thread: what its call of the wrapped function produced
    tres,           \* per thread: what the lookup gave its caller
    tcalls,         \* per thread: remote calls it made
    tstored,        \* per thread: whether it inserted the cache entry
    prompt,         \* prepare_prompt_for_model: the prompt argument
    model_name,     \* prepare_prompt_for_model: the model_name argument
    ppc,            \* prepare_prompt_for_model: "idle" | "done"
    ptokens,        \* the tokenized prompt
    pkept,          \* the tokens the returned prompt was produced from
    plimit,         \* the model token limit used
    plogs,          \* warnings logged by the call
    pres,           \* what the caller received
    epc,            \* emails_to_user_ids: "idle" | "loop" | "done"
    participants,   \* emails_to_user_ids: the participants argument
    pending,        \* participants of set(participants) not yet visited
    user_ids,       \* the user_ids list being built
    resolutions,    \* each visited participant with the outcome of resolve_user
    elogs,          \* log records written by emails_to_user_ids
    eres,           \* what the caller of emails_to_user_ids received
    cases,          \* Case rows added and committed
    case_events,    \* case events logged
    case_participants, \* participants added to cases
    individuals,    \* individual contacts that exist
    background,     \* background tasks scheduled by the route
    response,       \* the last response of the create_case route
    priorities, \* CasePriority rows
    next_priority_id, \* the id the next created priority gets
    priority_calls, \* priority service calls made so far
    priority_op, \* the last priority service call and its result
    apc, \* activity: "idle" | "fetching" | "done"
    afn, \* the activity function called
    acursor, \* the cursor variable of the loop
    arequests, \* the make_call requests of the loop, in order
    aresponses, \* the responses received, in order
    aresult, \* the tuples pushed so far
    ares, \* what the caller received
    ipc, \* add_users_to_conversation: "idle" | "loop" | "done"
    invite_user_ids, \* the user_ids argument
    invite_at, \* the index the chunks generator is at
    invites, \* the conversations.invite calls made, in order
    invite_answers, \* how the remote answered each of them
    invite_res, \* what the caller received
    kpc, \* remove_member_from_channel: "idle" | "kicking" | "done"
    kuser, \* the user_id argument
    kchannel, \* the conversation_id argument
    kanswer, \* how the remote answered conversations.members
    kcheck, \* what is_member_in_channel gave
    kcalls, \* the endpoints called by this removal, in order
    kres, \* what the caller received
    removals, \* removals started so far
    case_rows, \* delete_case: the case rows by id
    external, \* delete_case: the external resources of each case
    delete_calls, \* delete_case: what the last request called, in order
    delete_res, \* delete_case: the last response and the state it started from
    now, \* generate_read_in_summary: the clock
    events, \* generate_read_in_summary: the summary events, oldest first
    summary_res, \* generate_read_in_summary: the last response and what the request did
    profile_objects, \* the profile dict the _get_user_profile_by_id cache refers to, by key
    info_by_email, \* the _get_user_info_by_email cache
    profile_by_email, \* the keys of the _get_user_profile_by_email cache; an entry refers to the by-id dict
    profile_res \* the last profile lookup

callVars == <<pc, endpoint, kwargs, attempt_number, requests, outcomes, sleeps, logs, result>>

cacheVars == <<cache, remote_calls, lookups, used, prevOp, lastOp>>

raceVars == <<race, tpc, tval, tres, tcalls, tstored>>

promptVars == <<prompt, model_name, ppc, ptokens, pkept, plimit, plogs, pres>>

resolveVars == <<epc, participants, pending, user_ids, resolutions, elogs, eres>>

caseVars == <<cases, case_events, case_participants, individuals, background, response>>

priorityVars == <<priorities, next_priority_id, priority_calls, priority_op>>

activityVars == <<apc, afn, acursor, arequests, aresponses, aresult, ares>>

inviteVars == <<ipc, invite_user_ids, invite_at, invites, invite_answers, invite_res>>

kickVars == <<kpc, kuser, kchannel, kanswer, kcheck, kcalls, kres, removals>>

deleteVars == <<case_rows, external, delete_calls, delete_res>>

summaryVars == <<now, events, summary_res>>

profileVars == <<profile_objects, info_by_email, profile_by_email, profile_res>>

vars == <<callVars, cacheVars, raceVars, promptVars, resolveVars, caseVars, priorityVars, activityVars, inviteVars, kickVars, deleteVars, summaryVars, profileVars>>

\* What the steps of each component leave unchanged.
otherThanCall == <<cacheVars, raceVars, promptVars, resolveVars, caseVars, priorityVars, activityVars, inviteVars, kickVars, deleteVars, summaryVars, profileVars>>

otherThanCache == <<callVars, raceVars, promptVars, resolveVars, caseVars, priorityVars, activityVars, inviteVars, kickVars, deleteVars, summaryVars, profileVars>>

otherThanRace == <<callVars, promptVars, resolveVars, caseVars, priorityVars, activityVars, inviteVars, kickVars, deleteVars, summaryVars, profileVars>>

otherThanPrompt == <<callVars, cacheVars, raceVars, resolveVars, caseVars, priorityVars, activityVars, inviteVars, kickVars, deleteVars, summaryVars, profileVars>>

otherThanResolve == <<callVars, cacheVars, raceVars, promptVars, caseVars, priorityVars, activityVars, inviteVars, kickVars, deleteVars, summaryVars, profileVars>>

otherThanCase == <<callVars, cacheVars, raceVars, promptVars, resolveVars, priorityVars, activityVars, inviteVars, kickVars, deleteVars, summaryVars, profileVars>>

otherThanPriority == <<callVars, cacheVars, raceVars, promptVars, resolveVars, caseVars, activityVars, inviteVars, kickVars, deleteVars, summaryVars, profileVars>>

otherThanActivity == <<callVars, cacheVars, raceVars, promptVars, resolveVars, caseVars, priorityVars, inviteVars, kickVars, deleteVars, summaryVars, profileVars>>

otherThanInvite == <<callVars, cacheVars, raceVars, promptVars, resolveVars, caseVars, priorityVars, activityVars, kickVars, deleteVars, summaryVars, profileVars>>

otherThanKick == <<callVars, cacheVars, raceVars, promptVars, resolveVars, caseVars, priorityVars, activityVars, inviteVars, deleteVars, summaryVars, profileVars>>

otherThanDelete == <<callVars, cacheVars, raceVars, promptVars, resolveVars, caseVars, priorityVars, activityVars, inviteVars, kickVars, summaryVars, profileVars>>

otherThanSummary == <<callVars, cacheVars, raceVars, promptVars, resolveVars, caseVars, priorityVars, activityVars, inviteVars, kickVars, deleteVars, profileVars>>

otherThanProfile == <<callVars, cacheVars, raceVars, promptVars, resolveVars, caseVars, priorityVars, activityVars, inviteVars, kickVars, deleteVars, summaryVars>>

----------------------------------------------------------------------------
(* Enumerations imported from .enums (service.py line 22).  The members    *)
(* listed are the ones service.py itself names; the value of a member is   *)
(* written as its lower-cased name.                                        *)

SlackAPIErrorCode ==
    { "already_in_channel", "channel_not_archived", "channel_not_found",
      "users_not_found", "user_in_channel", "user_not_in_channel" }

SlackAPIGetEndpoints ==
    { "chat.getPermalink", "conversations.history", "conversations.info",
      "conversations.members", "conversations.replies", "team.info",
      "users.conversations", "users.info", "users.lookupByEmail",
      "users.profile.get" }

SlackAPIPostEndpoints ==
    { "bookmarks.add", "chat.postEphemeral", "chat.postMessage", "chat.update",
      "conversations.archive", "conversations.create", "conversations.invite",
      "conversations.kick", "conversations.rename", "conversations.setPurpose",
      "conversations.setTopic", "conversations.unarchive", "pins.add" }

----------------------------------------------------------------------------
(* Values.                                                                 *)

NoHeaders == [h \in {} |-> <<>>]

NoExc == [type |-> "", error |-> "", headers |-> NoHeaders]

\* A header value is a string of decimal digits, kept as the sequence of its digits.
RetryAfterValues == { <<0>>, <<3>>, <<9, 0>> }

HeaderSets == { NoHeaders } \cup { [h \in {"Retry-After"} |-> v] : v \in RetryAfterValues }

\* Error codes a SlackApiError response may carry: terminal ones and others.
ErrorCodes == { "channel_not_found", "users_not_found", "ratelimited" }

SlackApiErrors ==
    { [type |-> "SlackApiError", error |-> e, headers |-> h] : e \in ErrorCodes, h \in HeaderSets }

\* TimeoutError (builtin), requests.Timeout and its subclass ReadTimeout.
TimeoutExcs ==
    { [type |-> t, error |-> "", headers |-> NoHeaders] : t \in {"TimeoutError", "Timeout", "ReadTimeout"} }

\* Exceptions that are neither a SlackApiError nor a timeout.
OtherExcs ==
    { [type |-> t, error |-> "", headers |-> NoHeaders] : t \in {"ValueError"} }

Exceptions == SlackApiErrors \cup TimeoutExcs \cup OtherExcs

Responses == { "resp1", "resp2" }

ApiOutcomes ==
    { [kind |-> "return", response |-> r, exc |-> NoExc] : r \in Responses }
    \cup { [kind |-> "raise", response |-> "", exc |-> e] : e \in Exceptions }

\* The class hierarchy used by `match` / `except` / isinstance.
IsInstance(exc, cls) ==
    CASE cls = "SlackApiError" -> exc.type = "SlackApiError"
      [] cls = "TimeoutError"  -> exc.type = "TimeoutError"
      [] cls = "Timeout"       -> exc.type \in {"Timeout", "ReadTimeout"}
      [] OTHER                 -> exc.type = cls

RECURSIVE Pow(_, _)
Pow(b, n) == IF n = 0 THEN 1 ELSE b * Pow(b, n - 1)

Max(a, b) == IF a >= b THEN a ELSE b

Min(a, b) == IF a <= b THEN a ELSE b

\* Python int() of a string of decimal digits.
RECURSIVE int(_)
int(s) == IF Len(s) = 0 THEN 0 ELSE 10 * int(SubSeq(s, 1, Len(s) - 1)) + s[Len(s)]

----------------------------------------------------------------------------
(* Retry policy of make_call.                                              *)

\* stop_after_attempt(5)
StopAfterAttempt == 5

\* should_retry looking for the code among the member names
should_retry_names(exception) ==
    IF IsInstance(exception, "SlackApiError")
    THEN exception.error \notin { "ALREADY_IN_CHANNEL", "CHANNEL_NOT_ARCHIVED",
                                  "CHANNEL_NOT_FOUND", "USERS_NOT_FOUND",
                                  "USER_IN_CHANNEL", "USER_NOT_IN_CHANNEL" }
    ELSE IF IsInstance(exception, "TimeoutError") \/ IsInstance(exception, "Timeout")
    THEN TRUE
    ELSE FALSE

\* should_retry matching only the builtin TimeoutError
should_retry_builtin_timeout(exception) ==
    IF IsInstance(exception, "SlackApiError")
    THEN exception.error \notin SlackAPIErrorCode
    ELSE IF IsInstance(exception, "TimeoutError")
    THEN TRUE
    ELSE FALSE

\* should_retry with the membership test inverted
should_retry_inverted(exception) ==
    IF IsInstance(exception, "SlackApiError")
    THEN exception.error \in SlackAPIErrorCode
    ELSE IF IsInstance(exception, "TimeoutError") \/ IsInstance(exception, "Timeout")
    THEN TRUE
    ELSE FALSE

\* should_retry retrying in the default case
should_retry_default_true(exception) ==
    IF IsInstance(exception, "SlackApiError")
    THEN exception.error \notin SlackAPIErrorCode
    ELSE TRUE

should_retry(exception) ==
    IF IsInstance(exception, "SlackApiError")
    THEN exception.error \notin SlackAPIErrorCode
    ELSE IF IsInstance(exception, "TimeoutError") \/ IsInstance(exception, "Timeout")
    THEN TRUE
    ELSE FALSE

\* wait_exponential raising the base to the attempt number itself
wait_exponential_from_two(multiplier, min, max, attempt) ==
    Max(Max(0, min), Min(multiplier * Pow(2, attempt), max))

\* tenacity wait_exponential(multiplier, min, max) at a given attempt number
wait_exponential(multiplier, min, max, attempt) ==
    Max(Max(0, min), Min(multiplier * Pow(2, attempt - 1), max))

\* get_wait_time looking for the header on the response instead of its headers
get_wait_time_no_header(exception, attempt) ==
    wait_exponential(1, 1, 60, attempt)

get_wait_time(exception, attempt) ==
    IF IsInstance(exception, "SlackApiError") /\ "Retry-After" \in DOMAIN exception.headers
    THEN int(exception.headers["Retry-After"])
    ELSE wait_exponential(1, 1, 60, attempt)

\* stop condition off by one
stop_after(attempt) == attempt > StopAfterAttempt

\* stop_after_attempt(n): stop once attempt_number >= n
stop(attempt) == attempt >= StopAfterAttempt

\* make_call sending every endpoint with the default verb
ApiRequest_post(ep, kw) ==
    [endpoint |-> ep, http_verb |-> "POST", params |-> "None", json |-> kw]

\* The request client.api_call receives from make_call.
ApiRequest(ep, kw) ==
    IF ep \in SlackAPIGetEndpoints
    THEN [endpoint |-> ep, http_verb |-> "GET", params |-> kw, json |-> "None"]
    ELSE [endpoint |-> ep, http_verb |-> "POST", params |-> "None", json |-> kw]

\* except SlackApiError only
Caught_slack_only(exc) == IsInstance(exc, "SlackApiError")

\* except (SlackApiError, TimeoutError, Timeout) in make_call
Caught(exc) ==
    IsInstance(exc, "SlackApiError") \/ IsInstance(exc, "TimeoutError") \/ IsInstance(exc, "Timeout")

LogRecord(exc, ep, kw) ==
    [name |-> exc.type, endpoint |-> ep, kwargs |-> kw,
     exc_info |-> IF IsInstance(exc, "SlackApiError") THEN exc ELSE NoExc]

\* tenacity's RetryError, raised when the stop condition holds (no reraise=True)
RetryError == [type |-> "RetryError", error |-> "", headers |-> NoHeaders]

NoResult == [kind |-> "none", response |-> "", exc |-> NoExc, last_attempt |-> NoExc]

----------------------------------------------------------------------------
(* Inputs.                                                                 *)

Endpoints == { "users.info", "conversations.invite" }

KwargsSet == { "kw1", "kw2" }

----------------------------------------------------------------------------
(* make_call                                                               *)

InitCall ==
    /\ pc = "idle"
    /\ endpoint = "users.info"
    /\ kwargs = "kw1"
    /\ attempt_number = 1
    /\ requests = <<>>
    /\ outcomes = <<>>
    /\ sleeps = <<>>
    /\ logs = <<>>
    /\ result = NoResult

\* A caller invokes make_call(client, endpoint, **kwargs).
MakeCall(ep, kw) ==
    /\ pc \in {"idle", "returned", "raised"}
    /\ pc' = "calling"
    /\ endpoint' = ep
    /\ kwargs' = kw
    /\ attempt_number' = 1
    /\ requests' = <<>>
    /\ outcomes' = <<>>
    /\ sleeps' = <<>>
    /\ logs' = <<>>
    /\ result' = NoResult

\* One attempt: the body of make_call runs, then tenacity decides.
Attempt(o) ==
    /\ pc = "calling"
    /\ requests' = Append(requests, ApiRequest(endpoint, kwargs))
    /\ outcomes' = Append(outcomes, o)
    /\ logs' = IF o.kind = "raise" /\ Caught(o.exc)
               THEN Append(logs, LogRecord(o.exc, endpoint, kwargs))
               ELSE logs
    /\ IF o.kind = "return"
       THEN /\ pc' = "returned"
            /\ result' = [kind |-> "return", response |-> o.response,
                          exc |-> NoExc, last_attempt |-> NoExc]
            /\ UNCHANGED <<attempt_number, sleeps>>
       ELSE IF ~should_retry(o.exc)
       THEN /\ pc' = "raised"
            /\ result' = [kind |-> "raise", response |-> "",
                          exc |-> o.exc, last_attempt |-> NoExc]
            /\ UNCHANGED <<attempt_number, sleeps>>
       ELSE IF stop(attempt_number)
       THEN /\ pc' = "raised"
            /\ result' = [kind |-> "raise", response |-> "",
                          exc |-> RetryError, last_attempt |-> o.exc]
            /\ UNCHANGED <<attempt_number, sleeps>>
       ELSE /\ pc' = "calling"
            /\ sleeps' = Append(sleeps, get_wait_time(o.exc, attempt_number))
            /\ attempt_number' = attempt_number + 1
            /\ UNCHANGED result
    /\ UNCHANGED <<endpoint, kwargs>>

NextCall ==
    \/ \E ep \in Endpoints, kw \in KwargsSet : MakeCall(ep, kw) /\ UNCHANGED otherThanCall
    \/ \E o \in ApiOutcomes : Attempt(o) /\ UNCHANGED otherThanCall

----------------------------------------------------------------------------
(* Cached lookups: functools.lru_cache keyed by (WebClientWrapper, arg).   *)

\* WebClient objects; c1 and c2 are distinct objects holding the same token.
Clients == { "c1", "c2", "c3" }

Token(c) == IF c \in {"c1", "c2"} THEN "xoxb-A" ELSE "xoxb-B"

\* Lookup arguments (user ids / emails); get_domain takes none.
Args == { "u1", "u2" }

NoArg == "-"

CachedFunctions ==
    { "get_domain", "get_user_info_by_id", "get_user_info_by_email",
      "does_user_exist", "get_user_profile_by_id" }

ArgsOf(fn) == IF fn = "get_domain" THEN { NoArg } ELSE Args

\* The endpoint each cached function passes to make_call.
EndpointOf(fn) ==
    CASE fn = "get_domain"             -> "team.info"
      [] fn = "get_user_info_by_id"    -> "users.info"
      [] fn = "get_user_info_by_email" -> "users.lookupByEmail"
      [] fn = "does_user_exist"        -> "users.lookupByEmail"
      [] fn = "get_user_profile_by_id" -> "users.profile.get"

\* functools.lru_cache() default maxsize
lru_maxsize == 128

\* WebClientWrapper.__eq__ comparing the wrapped client objects
WrapperEq_identity(w1, w2) == w1 = w2

\* WebClientWrapper.__eq__ (a wrapper is represented by the client it wraps)
WrapperEq(w1, w2) == Token(w2) = Token(w1)

\* WebClientWrapper.__hash__: hash(type(token)), the same for every str token
WrapperHash(w) == "str"

\* Key comparison of the cache's dictionary: equal hashes, then __eq__.
KeyMatches(e, w, a) ==
    /\ WrapperHash(e.wrapper) = WrapperHash(w)
    /\ WrapperEq(e.wrapper, w)
    /\ e.arg = a

\* Index of the entry of entries matching key (w, a), 0 when there is none.
FindEntry(entries, w, a) ==
    IF \E i \in 1..Len(entries) : KeyMatches(entries[i], w, a)
    THEN CHOOSE i \in 1..Len(entries) : KeyMatches(entries[i], w, a)
    ELSE 0

\* A hit moves the entry to the most recently used end.
Touch(entries, i) ==
    Append(SubSeq(entries, 1, i - 1) \o SubSeq(entries, i + 1, Len(entries)), entries[i])

\* Store evicting one entry too early
Store_early(entries, w, a, v) ==
    LET e == [wrapper |-> w, arg |-> a, value |-> v]
    IN  IF Len(entries) >= lru_maxsize - 1
        THEN Append(Tail(entries), e)
        ELSE Append(entries, e)

\* A miss stores the result, evicting the least recently used entry when full.
Store(entries, w, a, v) ==
    LET e == [wrapper |-> w, arg |-> a, value |-> v]
    IN  IF Len(entries) >= lru_maxsize
        THEN Append(Tail(entries), e)
        ELSE Append(entries, e)

\* What make_call does for a lookup: a response, or an exception (a terminal
\* SlackApiError such as users_not_found, or RetryError after exhaustion).
RemoteOutcomes ==
    { [kind |-> "return", exc |-> ""],
      [kind |-> "raise", exc |-> "users_not_found"],
      [kind |-> "raise", exc |-> "RetryError"] }

\* The part of the response the lookup returns, as served to the n-th make_call.
RemoteValue(ep, c, a, n) == [endpoint |-> ep, token |-> Token(c), arg |-> a, serial |-> n]

NoValue == [endpoint |-> "", token |-> "", arg |-> "", serial |-> 0]

\* CachedCall keeping an entry for a call that raised
CachedCall_store_raised(caches, fn, c, a, o, n) ==
    LET i == FindEntry(caches[fn], c, a)
    IN  IF i # 0
        THEN [cache |-> [caches EXCEPT ![fn] = Touch(@, i)],
              kind |-> "return", value |-> caches[fn][i].value, exc |-> "", calls |-> 0]
        ELSE IF o.kind = "return"
        THEN LET v == RemoteValue(EndpointOf(fn), c, a, n + 1)
             IN  [cache |-> [caches EXCEPT ![fn] = Store(@, c, a, v)],
                  kind |-> "return", value |-> v, exc |-> "", calls |-> 1]
        ELSE [cache |-> [caches EXCEPT ![fn] = Store(@, c, a, NoValue)],
              kind |-> "raise", value |-> NoValue, exc |-> o.exc, calls |-> 1]

\* _get_domain, _get_user_info_by_id, _get_user_info_by_email,
\* _get_user_profile_by_id under lru_cache: the caches after the call, and
\* what the call did.
CachedCall(caches, fn, c, a, o, n) ==
    LET i == FindEntry(caches[fn], c, a)
    IN  IF i # 0
        THEN [cache |-> [caches EXCEPT ![fn] = Touch(@, i)],
              kind |-> "return", value |-> caches[fn][i].value, exc |-> "", calls |-> 0]
        ELSE IF o.kind = "return"
        THEN LET v == RemoteValue(EndpointOf(fn), c, a, n + 1)
             IN  [cache |-> [caches EXCEPT ![fn] = Store(@, c, a, v)],
                  kind |-> "return", value |-> v, exc |-> "", calls |-> 1]
        ELSE [cache |-> caches, kind |-> "raise", value |-> NoValue, exc |-> o.exc, calls |-> 1]

\* _does_user_exist under lru_cache: it goes through get_user_info_by_email.
DoesUserExist(caches, c, a, o, n) ==
    LET i == FindEntry(caches["does_user_exist"], c, a)
    IN  IF i # 0
        THEN [cache |-> [caches EXCEPT !["does_user_exist"] = Touch(@, i)],
              kind |-> "return", value |-> caches["does_user_exist"][i].value,
              exc |-> "", calls |-> 0]
        ELSE LET r == CachedCall(caches, "get_user_info_by_email", c, a, o, n)
             IN  IF r.kind = "return"
                 THEN [cache |-> [r.cache EXCEPT !["does_user_exist"] = Store(@, c, a, TRUE)],
                       kind |-> "return", value |-> TRUE, exc |-> "", calls |-> r.calls]
                 ELSE IF r.exc = "users_not_found"
                 THEN [cache |-> [r.cache EXCEPT !["does_user_exist"] = Store(@, c, a, FALSE)],
                       kind |-> "return", value |-> FALSE, exc |-> "", calls |-> r.calls]
                 ELSE [cache |-> r.cache, kind |-> "raise", value |-> NoValue,
                       exc |-> r.exc, calls |-> r.calls]

\* The caches a lookup of fn may be answered from.
Backing(fn) == IF fn = "does_user_exist" THEN { fn, "get_user_info_by_email" } ELSE { fn }

\* No cache that can answer fn holds an entry stored under this token and argument.
Cold(caches, fn, c, a) ==
    \A g \in Backing(fn) : \A i \in 1..Len(caches[g]) :
        ~(Token(caches[g][i].wrapper) = Token(c) /\ caches[g][i].arg = a)

\* The keys a lookup was served under: one record for each cache that
\* answered or stored (the inner cache of does_user_exist first).
Served(before, after, fn, c, a, kind) ==
    LET rec(g) == [fn |-> g, token |-> Token(c), arg |-> a,
                   value |-> after[g][Len(after[g])].value]
        inner == IF fn = "does_user_exist"
                    /\ before["does_user_exist"] # after["does_user_exist"]
                    /\ \E i \in 1..Len(after["get_user_info_by_email"]) :
                          KeyMatches(after["get_user_info_by_email"][i], c, a)
                    /\ KeyMatches(after["get_user_info_by_email"][Len(after["get_user_info_by_email"])], c, a)
                 THEN << rec("get_user_info_by_email") >>
                 ELSE << >>
    IN  IF kind = "return" THEN inner \o << rec(fn) >> ELSE << >>

\* Position in u of the last use of key (fn, token, arg), 0 when never used.
LastUse(u, fn, t, a) ==
    LET S == { i \in 1..Len(u) : u[i].fn = fn /\ u[i].token = t /\ u[i].arg = a }
    IN  IF S = {} THEN 0 ELSE CHOOSE i \in S : \A j \in S : j <= i

\* Number of distinct other keys of fn used since the last use of the key.
OthersSince(u, fn, t, a) ==
    Cardinality({ <<u[j].token, u[j].arg>> :
                    j \in { k \in (LastUse(u, fn, t, a) + 1)..Len(u) : u[k].fn = fn } })

NoOp == [fn |-> "", client |-> "", arg |-> "", cold |-> FALSE, kind |-> "none",
         value |-> NoValue, exc |-> "", calls |-> 0,
         seen |-> FALSE, others |-> 0, prior |-> NoValue]

\* Number of cached lookups one behaviour performs.
MaxLookups == 2

InitCache ==
    /\ cache = [fn \in CachedFunctions |-> <<>>]
    /\ remote_calls = 0
    /\ lookups = 0
    /\ used = << >>
    /\ prevOp = NoOp
    /\ lastOp = NoOp

\* get_domain(client), get_user_info_by_id(client, a), get_user_info_by_email(client, a),
\* does_user_exist(client, a), get_user_profile_by_id(client, a)
Lookup(fn, c, a, o) ==
    /\ lookups < MaxLookups
    /\ LET r == IF fn = "does_user_exist"
                THEN DoesUserExist(cache, c, a, o, remote_calls)
                ELSE CachedCall(cache, fn, c, a, o, remote_calls)
       IN  /\ cache' = r.cache
           /\ remote_calls' = remote_calls + r.calls
           /\ used' = used \o Served(cache, r.cache, fn, c, a, r.kind)
           /\ lastOp' = [fn |-> fn, client |-> c, arg |-> a,
                         cold |-> Cold(cache, fn, c, a), kind |-> r.kind,
                         value |-> r.value, exc |-> r.exc, calls |-> r.calls,
                         seen |-> LastUse(used, fn, Token(c), a) # 0,
                         others |-> OthersSince(used, fn, Token(c), a),
                         prior |-> IF LastUse(used, fn, Token(c), a) # 0
                                   THEN used[LastUse(used, fn, Token(c), a)].value
                                   ELSE NoValue]
    /\ prevOp' = lastOp
    /\ lookups' = lookups + 1

NextCache ==
    \E fn \in CachedFunctions, c \in Clients, o \in RemoteOutcomes :
        \E a \in ArgsOf(fn) : Lookup(fn, c, a, o) /\ UNCHANGED otherThanCache
\* The cached function whose cache the eviction scenario has filled.
EvictFunctions == { "get_user_info_by_id" }

\* The i-th key of a filled cache: ("u1" under token xoxb-A) first, then
\* other arguments under the same token.
FillArg(i) == IF i = 1 THEN "u1" ELSE ToString(i)

FillValue(fn, i) == RemoteValue(EndpointOf(fn), "c1", FillArg(i), i)

\* The state after n successful lookups of n distinct arguments through
\* client c1 of one cached function.
InitFilled ==
    \E fn0 \in EvictFunctions, n \in { lru_maxsize - 1, lru_maxsize } :
        /\ cache = [fn \in CachedFunctions |->
                      IF fn = fn0
                      THEN [i \in 1..n |-> [wrapper |-> "c1", arg |-> FillArg(i),
                                            value |-> FillValue(fn0, i)]]
                      ELSE << >>]
        /\ used = [i \in 1..n |-> [fn |-> fn0, token |-> Token("c1"), arg |-> FillArg(i),
                                   value |-> FillValue(fn0, i)]]
        /\ remote_calls = n
        /\ lookups = 0
        /\ prevOp = NoOp
        /\ lastOp = NoOp

NextEvict ==
    \E fn \in EvictFunctions, c \in Clients, o \in RemoteOutcomes :
        \E a \in ArgsOf(fn) : Lookup(fn, c, a, o) /\ UNCHANGED otherThanCache

----------------------------------------------------------------------------
(* Two threads in the lru_cache wrapper of one function at the same time.  *)
(* The wrapper looks the key up, calls the wrapped function on a miss      *)
(* without holding the cache, and on return stores the result unless the   *)
(* key has been added meanwhile.                                           *)

Threads == { "t1", "t2" }

\* The racing callers hold distinct client objects with the same token.
ThreadClient(t) == IF t = "t1" THEN "c1" ELSE "c2"

RaceFunctions ==
    { "get_domain", "get_user_info_by_id", "get_user_info_by_email", "get_user_profile_by_id" }

NoRace == [fn |-> "", arg |-> ""]

NoThreadResult == [kind |-> "none", value |-> NoValue, exc |-> ""]

InitRaceIdle ==
    /\ race = NoRace
    /\ tpc = [t \in Threads |-> "done"]
    /\ tval = [t \in Threads |-> NoThreadResult]
    /\ tres = [t \in Threads |-> NoThreadResult]
    /\ tcalls = [t \in Threads |-> 0]
    /\ tstored = [t \in Threads |-> FALSE]

\* Both threads are about to look up the same function and argument.
InitRacing ==
    /\ race \in { [fn |-> f, arg |-> a] : f \in RaceFunctions, a \in Args \cup {NoArg} }
    /\ race.arg \in ArgsOf(race.fn)
    /\ tpc = [t \in Threads |-> "start"]
    /\ tval = [t \in Threads |-> NoThreadResult]
    /\ tres = [t \in Threads |-> NoThreadResult]
    /\ tcalls = [t \in Threads |-> 0]
    /\ tstored = [t \in Threads |-> FALSE]

\* Storing after the wrapped function returned, without looking again
StoreIfAbsent_always(entries, w, a, v) == Store(entries, w, a, v)

\* After the wrapped function returned: the key may have been added by the
\* other thread during the call, and then the cache is left as it is.
StoreIfAbsent(entries, w, a, v) ==
    IF FindEntry(entries, w, a) # 0 THEN entries ELSE Store(entries, w, a, v)

\* The wrapper's lookup of the key: a hit returns the cached result.
RaceCheck(t) ==
    /\ tpc[t] = "start"
    /\ LET i == FindEntry(cache[race.fn], ThreadClient(t), race.arg)
       IN  IF i # 0
           THEN /\ tres' = [tres EXCEPT ![t] = [kind |-> "return",
                                                value |-> cache[race.fn][i].value, exc |-> ""]]
                /\ cache' = [cache EXCEPT ![race.fn] = Touch(@, i)]
                /\ used' = Append(used, [fn |-> race.fn, token |-> Token(ThreadClient(t)),
                                         arg |-> race.arg, value |-> cache[race.fn][i].value])
                /\ tpc' = [tpc EXCEPT ![t] = "done"]
           ELSE /\ tpc' = [tpc EXCEPT ![t] = "missed"]
                /\ UNCHANGED <<tres, cache, used>>
    /\ UNCHANGED <<race, tval, tcalls, tstored, remote_calls, lookups, prevOp, lastOp>>

\* The wrapped function runs: make_call returns or raises.
RaceRemote(t, o) ==
    /\ tpc[t] = "missed"
    /\ remote_calls' = remote_calls + 1
    /\ tcalls' = [tcalls EXCEPT ![t] = @ + 1]
    /\ IF o.kind = "return"
       THEN /\ tval' = [tval EXCEPT ![t] =
                          [kind |-> "return", exc |-> "",
                           value |-> RemoteValue(EndpointOf(race.fn), ThreadClient(t),
                                                 race.arg, remote_calls + 1)]]
            /\ tpc' = [tpc EXCEPT ![t] = "called"]
            /\ UNCHANGED tres
       ELSE /\ tres' = [tres EXCEPT ![t] = [kind |-> "raise", value |-> NoValue, exc |-> o.exc]]
            /\ tpc' = [tpc EXCEPT ![t] = "done"]
            /\ UNCHANGED tval
    /\ UNCHANGED <<race, tstored, cache, used, lookups, prevOp, lastOp>>

\* The wrapper stores the result and returns it.
RaceStore(t) ==
    /\ tpc[t] = "called"
    /\ tstored' = [tstored EXCEPT ![t] =
                      FindEntry(cache[race.fn], ThreadClient(t), race.arg) = 0]
    /\ cache' = [cache EXCEPT ![race.fn] =
                    StoreIfAbsent(@, ThreadClient(t), race.arg, tval[t].value)]
    /\ used' = Append(used, [fn |-> race.fn, token |-> Token(ThreadClient(t)),
                             arg |-> race.arg, value |-> tval[t].value])
    /\ tres' = [tres EXCEPT ![t] = tval[t]]
    /\ tpc' = [tpc EXCEPT ![t] = "done"]
    /\ UNCHANGED <<race, tval, tcalls, remote_calls, lookups, prevOp, lastOp>>

AllDone == \A t \in Threads : tpc[t] = "done"

\* Number of lookups made after the race.
MaxLater == 1

\* A lookup of the same function once both threads have returned.
RaceLater(c, a, o) ==
    /\ AllDone
    /\ lookups < MaxLater
    /\ Lookup(race.fn, c, a, o)
    /\ UNCHANGED raceVars

NextRace ==
    \/ \E t \in Threads : RaceCheck(t) /\ UNCHANGED otherThanRace
    \/ \E t \in Threads, o \in RemoteOutcomes : RaceRemote(t, o) /\ UNCHANGED otherThanRace
    \/ \E t \in Threads : RaceStore(t) /\ UNCHANGED otherThanRace
    \/ \E c \in Clients, o \in RemoteOutcomes :
          \E a \in ArgsOf(race.fn) : RaceLater(c, a, o) /\ UNCHANGED otherThanRace

----------------------------------------------------------------------------
(* Prompt token budget (src/src/dispatch/ai/service.py).                   *)
(*                                                                         *)
(* A str or a list of tokens is kept as its runs: a sequence of records    *)
(* [sym, n], n >= 1 copies of sym, adjacent runs having different sym.     *)
(* The operators below are len(), slicing and element-wise mapping on it.  *)

RECURSIVE RLen(_)
RLen(r) == IF Len(r) = 0 THEN 0 ELSE r[1].n + RLen(Tail(r))

\* r[:k] for k >= 0
RECURSIVE RTake(_, _)
RTake(r, k) ==
    IF k <= 0 \/ Len(r) = 0 THEN << >>
    ELSE IF r[1].n <= k THEN << r[1] >> \o RTake(Tail(r), k - r[1].n)
    ELSE << [sym |-> r[1].sym, n |-> k] >>

\* r[k:] for k >= 0
RECURSIVE RDrop(_, _)
RDrop(r, k) ==
    IF Len(r) = 0 THEN << >>
    ELSE IF k <= 0 THEN r
    ELSE IF r[1].n <= k THEN RDrop(Tail(r), k - r[1].n)
    ELSE << [sym |-> r[1].sym, n |-> r[1].n - k] >> \o Tail(r)

\* r[:-k] as Python evaluates it: -0 is 0, so r[:-0] is r[:0]
PySliceToMinus(r, k) ==
    IF k = 0 THEN << >>
    ELSE IF k > 0 THEN RTake(r, Max(RLen(r) - k, 0))
    ELSE RTake(r, Min(0 - k, RLen(r)))

RHas(r, s) == \E i \in 1..Len(r) : r[i].sym = s

\* The text tiktoken treats as a special token.
SpecialToken == "<|endoftext|>"

\* tiktoken encodings: one token per character, numbered per encoding.
TokenOf(encoding, ch) ==
    LET base == IF encoding = "o200k_base" THEN 0 ELSE 100
    IN  CASE ch = "a" -> base + 1 [] ch = "b" -> base + 2 [] ch = "c" -> base + 3
          [] OTHER -> base + 9

CharOf(encoding, tok) ==
    LET base == IF encoding = "o200k_base" THEN 0 ELSE 100
    IN  CASE tok = base + 1 -> "a" [] tok = base + 2 -> "b" [] tok = base + 3 -> "c"
          [] OTHER -> SpecialToken

\* encoding.encode(message) for a message without special-token text
Encode(encoding, text) ==
    [i \in 1..Len(text) |-> [sym |-> TokenOf(encoding, text[i].sym), n |-> text[i].n]]

\* encoding.decode(tokens)
Decode(encoding, tokens) ==
    [i \in 1..Len(tokens) |-> [sym |-> CharOf(encoding, tokens[i].sym), n |-> tokens[i].n]]

\* encoding.encode raises ValueError on special-token text (disallowed_special="all")
EncodeRaises(text) == RHas(text, SpecialToken)

\* Models tiktoken.encoding_for_model knows; any other name is a KeyError.
TiktokenModels == { "gpt-4o", "gpt-4" }

encoding_for_model(model) == IF model = "gpt-4o" THEN "o200k_base" ELSE "cl100k_base"

\* str.lower() on the model names of the model
Lower(name) ==
    CASE name = "GPT-4O" -> "gpt-4o"
      [] name = "Claude-3-5-Sonnet-20241022" -> "claude-3-5-sonnet-20241022"
      [] OTHER -> name

default_max_tokens == 128000

model_token_limits ==
    [m \in { "gpt-4o", "claude-3-5-sonnet-20241022", "claude-3-7-sonnet-20250219" } |->
        IF m = "gpt-4o" THEN 128000 ELSE 200000]

\* get_model_token_limit looking the name up as given
get_model_token_limit_as_given(name, buffer_percent) ==
    LET raw_limit == IF name \in DOMAIN model_token_limits
                     THEN model_token_limits[name] ELSE default_max_tokens
    IN  (raw_limit * (100 - buffer_percent)) \div 100

\* int(raw_limit * (1 - buffer_percentage)), the buffer given in percent; the
\* binary64 product of the code is 121600.0 and 190000.0 for the raw limits
\* of the table, the same as the exact quotient.
get_model_token_limit(name, buffer_percent) ==
    LET raw_limit == IF Lower(name) \in DOMAIN model_token_limits
                     THEN model_token_limits[Lower(name)] ELSE default_max_tokens
    IN  (raw_limit * (100 - buffer_percent)) \div 100

\* buffer_percentage: float = 0.05
default_buffer_percent == 5

\* num_tokens_from_string: the encoding, the fallback warning, the tokens
num_tokens_from_string(message, model) ==
    LET known == model \in TiktokenModels
        encoding == IF known THEN encoding_for_model(model) ELSE "o200k_base"
        tokens == Encode(encoding, message)
    IN  [raises |-> EncodeRaises(message),
         warned |-> ~known,
         encoding |-> encoding,
         tokenized_message |-> tokens,
         num_tokens |-> RLen(tokens)]

\* truncate_prompt cutting the excess from the front
truncate_prompt_front(tokenized_prompt, num_tokens, encoding, model_token_limit) ==
    LET excess_tokens == num_tokens - model_token_limit
        truncated == RDrop(tokenized_prompt, excess_tokens)
    IN  [tokens |-> truncated, text |-> Decode(encoding, truncated)]

truncate_prompt(tokenized_prompt, num_tokens, encoding, model_token_limit) ==
    LET excess_tokens == num_tokens - model_token_limit
        truncated == PySliceToMinus(tokenized_prompt, excess_tokens)
    IN  [tokens |-> truncated, text |-> Decode(encoding, truncated)]

\* the comparison letting one more token through
exceeds_by_two(num_tokens, model_token_limit) == num_tokens > model_token_limit + 1

\* the comparison truncating at the limit itself
exceeds_or_equal(num_tokens, model_token_limit) == num_tokens >= model_token_limit

\* if num_tokens > model_token_limit
exceeds(num_tokens, model_token_limit) == num_tokens > model_token_limit

\* Inputs: model names, and prompts of n characters ending in a given tail.
Models ==
    { "gpt-4o", "GPT-4O", "gpt-4", "claude-3-5-sonnet-20241022",
      "Claude-3-5-Sonnet-20241022", "claude-3-7-sonnet-20250219", "unknown-model" }

Tails ==
    { << >>,
      << [sym |-> "b", n |-> 1] >>,
      << [sym |-> "b", n |-> 1], [sym |-> "c", n |-> 1] >>,
      << [sym |-> SpecialToken, n |-> 1] >> }

PromptOf(n, tail) ==
    IF RLen(tail) >= n THEN RTake(tail, n)
    ELSE << [sym |-> "a", n |-> n - RLen(tail)] >> \o tail

\* How far around a token limit the prompt lengths go.
MaxOver == 2

PromptLengths ==
    { 0, 1, 2 } \cup
    { get_model_token_limit(m, default_buffer_percent) + d : m \in Models, d \in (0 - MaxOver)..MaxOver }

NoText == << >>

InitPrompt ==
    /\ prompt = NoText
    /\ model_name = ""
    /\ ppc = "idle"
    /\ ptokens = << >>
    /\ pkept = << >>
    /\ plimit = 0
    /\ plogs = << >>
    /\ pres = [kind |-> "none", text |-> NoText, exc |-> ""]

\* prepare_prompt_for_model(prompt, model_name)
PreparePrompt(p, m) ==
    LET t == num_tokens_from_string(p, m)
        model_token_limit == get_model_token_limit(m, default_buffer_percent)
        fallback == IF t.warned THEN << "tokenizer-fallback" >> ELSE << >>
    IN  /\ prompt' = p
        /\ model_name' = m
        /\ ppc' = "done"
        /\ IF t.raises
           THEN /\ pres' = [kind |-> "raise", text |-> NoText, exc |-> "ValueError"]
                /\ ptokens' = << >>
                /\ pkept' = << >>
                /\ plimit' = 0
                /\ plogs' = fallback
           ELSE /\ ptokens' = t.tokenized_message
                /\ plimit' = model_token_limit
                /\ IF exceeds(t.num_tokens, model_token_limit)
                   THEN LET r == truncate_prompt(t.tokenized_message, t.num_tokens,
                                                 t.encoding, model_token_limit)
                        IN  /\ pres' = [kind |-> "return", text |-> r.text, exc |-> ""]
                            /\ pkept' = r.tokens
                            /\ plogs' = fallback \o << "truncated" >>
                   ELSE /\ pres' = [kind |-> "return", text |-> p, exc |-> ""]
                        /\ pkept' = t.tokenized_message
                        /\ plogs' = fallback

NextPrompt ==
    \E m \in Models, n \in PromptLengths, tail \in Tails :
        PreparePrompt(PromptOf(n, tail), m) /\ UNCHANGED otherThanPrompt

----------------------------------------------------------------------------
(* emails_to_user_ids (src/src/dispatch/plugins/dispatch_slack/service.py) *)

Emails == { "a@example.com", "b@example.com" }

SlackIds == { "U3" }

\* "@" in user_id
HasAt(user_id) == user_id \in Emails

\* the Slack user behind an email
UserOf(email) == IF email = "a@example.com" THEN "U1" ELSE "U2"

\* What resolve_user can do for a participant: return {"id": ...}, or let the
\* exception of get_user_info_by_email through (a SlackApiError of make_call,
\* or tenacity's RetryError once the attempts are used up).
ResolveOutcomes(participant) ==
    IF HasAt(participant)
    THEN { [kind |-> "return", id |-> UserOf(participant), type |-> "", error |-> ""] } \cup
         { [kind |-> "raise", id |-> "", type |-> "SlackApiError", error |-> e] :
               e \in { "users_not_found", "fatal_error" } } \cup
         { [kind |-> "raise", id |-> "", type |-> "RetryError", error |-> "ratelimited"] }
    ELSE { [kind |-> "return", id |-> participant, type |-> "", error |-> ""] }

\* Longest participants list passed in.
MaxParticipants == 2

ParticipantLists ==
    UNION { [1..n -> Emails \cup SlackIds] : n \in 0..MaxParticipants }

NoReturn == [kind |-> "none", value |-> << >>, type |-> ""]

InitResolve ==
    /\ epc = "idle"
    /\ participants = << >>
    /\ pending = { }
    /\ user_ids = << >>
    /\ resolutions = << >>
    /\ elogs = << >>
    /\ eres = NoReturn

\* user_ids = []; for participant in set(participants):
EmailsToUserIds(ps) ==
    /\ epc \in { "idle", "done" }
    /\ epc' = "loop"
    /\ participants' = ps
    /\ pending' = { ps[i] : i \in 1..Len(ps) }
    /\ user_ids' = << >>
    /\ resolutions' = << >>
    /\ elogs' = << >>
    /\ eres' = NoReturn

\* one iteration of the loop; a set is iterated in no particular order
ResolveParticipant(participant, o) ==
    /\ epc = "loop"
    /\ participant \in pending
    /\ resolutions' = Append(resolutions, [participant |-> participant, outcome |-> o])
    /\ pending' = pending \ { participant }
    /\ UNCHANGED participants
    /\ IF o.kind = "return"
       THEN /\ user_ids' = Append(user_ids, o.id)
            /\ UNCHANGED <<epc, elogs, eres>>
       ELSE IF o.type = "SlackApiError"
       THEN /\ elogs' = Append(elogs,
                   [level |-> IF o.error = "users_not_found" THEN "warning" ELSE "exception",
                    participant |-> participant])
            /\ UNCHANGED <<epc, user_ids, eres>>
       ELSE /\ epc' = "done"
            /\ eres' = [kind |-> "raise", value |-> << >>, type |-> o.type]
            /\ UNCHANGED <<user_ids, elogs>>

\* return user_ids
ReturnUserIds ==
    /\ epc = "loop"
    /\ pending = { }
    /\ epc' = "done"
    /\ eres' = [kind |-> "return", value |-> user_ids, type |-> ""]
    /\ UNCHANGED <<participants, pending, user_ids, resolutions, elogs>>

NextResolve ==
    \/ \E ps \in ParticipantLists : EmailsToUserIds(ps) /\ UNCHANGED otherThanResolve
    \/ \E participant \in Emails \cup SlackIds :
          \E o \in ResolveOutcomes(participant) :
              ResolveParticipant(participant, o) /\ UNCHANGED otherThanResolve
    \/ ReturnUserIds /\ UNCHANGED otherThanResolve

----------------------------------------------------------------------------
(* Case creation (src/src/dispatch/case/service.py create, and the         *)
(* create_case route of src/src/dispatch/case/views.py).                   *)

None == "None"

CaseStatus == { "New", "Triage", "Escalated", "Stable", "Closed" }

\* What case_type_service.get_by_name_or_default hands back: no case type, or
\* one with or without a conversation target.
CaseTypes ==
    { [name |-> "Security", conversation_target |-> None],
      [name |-> "Security", conversation_target |-> "#cases"] }

\* the absent case type
NoCaseType == [name |-> None, conversation_target |-> None]

ResolvedCaseTypes == { NoCaseType } \cup CaseTypes

\* CaseCreate bodies
CaseIns ==
    [status : CaseStatus,
     dedicated_channel : BOOLEAN,
     case_type : { None, "Security" },
     project : { None, "default" },
     reporter : { None, "reporter@example.com" }]

current_user_email == "user@example.com"

\* Most cases created in one behaviour.
MaxCases == 1

\* A response carries the request it answers and the row counts before it.
RowCounts == [cases |-> Len(cases), events |-> Len(case_events),
              participants |-> Len(case_participants)]

Response(status_code, exc, case, case_in, case_type) ==
    [status_code |-> status_code, exc |-> exc, case |-> case,
     case_in |-> case_in, case_type |-> case_type, before |-> RowCounts]

NoCaseIn ==
    [status |-> "New", dedicated_channel |-> FALSE, case_type |-> None,
     project |-> None, reporter |-> None]

NoResponse ==
    [status_code |-> 0, exc |-> "", case |-> 0, case_in |-> NoCaseIn,
     case_type |-> NoCaseType, before |-> [cases |-> 0, events |-> 0, participants |-> 0]]

InitCase ==
    /\ cases = << >>
    /\ case_events = << >>
    /\ case_participants = << >>
    /\ individuals = { }
    /\ background = << >>
    /\ response = NoResponse

\* How create ends for a body and a resolved case type: the exception that
\* leaves it, or "" when the case is created.
create_raises(case_in, case_type) ==
    IF ~case_in.dedicated_channel /\ (case_type = NoCaseType \/ case_type.conversation_target = None)
    THEN \* the message reads case_in.case_type.name
         IF case_in.case_type = None THEN "AttributeError" ELSE "ValueError"
    ELSE IF case_type = NoCaseType
    THEN \* case.visibility = case_type.visibility
         "AttributeError"
    ELSE ""

\* the flow the route schedules for a status
create_flow(status) ==
    CASE status = "Triage" -> "case_triage_create_flow"
      [] status = "Escalated" -> "case_escalated_create_flow"
      [] status = "Closed" -> "case_closed_create_flow"
      [] status = "Stable" -> "case_stable_create_flow"
      [] OTHER -> "case_new_create_flow"

\* the status the route answers with when an exception leaves create
status_for(exc) == IF exc = "ValueError" THEN 422 ELSE 500

\* POST /cases: the route and the create it calls
CreateCase(case_in, case_type) ==
    /\ Len(cases) < MaxCases
    /\ IF case_in.reporter = None /\ case_in.project = None
       THEN /\ response' = Response(422, "HTTPException", 0, case_in, case_type)
            /\ UNCHANGED <<cases, case_events, case_participants, individuals, background>>
       ELSE LET reporter == IF case_in.reporter = None
                            THEN current_user_email ELSE case_in.reporter
                exc == create_raises(case_in, case_type)
                id == Len(cases) + 1
            IN  /\ individuals' = IF case_in.reporter = None
                                  THEN individuals \cup { current_user_email }
                                  ELSE individuals
                /\ IF exc # ""
                   THEN /\ response' = Response(status_for(exc), exc, 0, case_in, case_type)
                        /\ UNCHANGED <<cases, case_events, case_participants, background>>
                   ELSE /\ cases' = Append(cases,
                               [id |-> id, status |-> case_in.status,
                                dedicated_channel |-> case_in.dedicated_channel,
                                case_type |-> case_type])
                        /\ case_events' = Append(case_events,
                               [case_id |-> id, description |-> "Case created"])
                        /\ case_participants' = case_participants \o
                               << [case_id |-> id, email |-> current_user_email, role |-> "assignee"],
                                  [case_id |-> id, email |-> reporter, role |-> "reporter"] >>
                        /\ background' = Append(background,
                               [task |-> create_flow(case_in.status), case_id |-> id])
                        /\ response' = Response(200, "", id, case_in, case_type)

NextCase ==
    \E case_in \in CaseIns, case_type \in ResolvedCaseTypes :
        CreateCase(case_in, case_type) /\ UNCHANGED otherThanCase

----------------------------------------------------------------------------
(* Case priority service (src/src/dispatch/case/priority/service.py).      *)
(* The table is the set of CasePriority rows; a row is a record            *)
(* [id, project, name, default, color].                                    *)

Projects == { "p1", "p2" }

PriorityNames == { "low", "high" }

\* Most priorities created in one behaviour.
MaxPriorities == 2

NoRow == [id |-> 0, project |-> None, name |-> None, default |-> FALSE, color |-> None]

PriorityFields == { "name", "default", "color", "project" }

\* CasePriorityUpdate bodies: the fields set explicitly and their values; a
\* field not set reads as its declared default.
PriorityUpdates ==
    { [set |-> fs,
       name |-> IF "name" \in fs THEN "high" ELSE None,
       default |-> IF "default" \in fs THEN d ELSE FALSE,
       color |-> IF "color" \in fs THEN c ELSE None,
       project |-> IF "project" \in fs THEN "p2" ELSE None] :
          fs \in SUBSET PriorityFields, d \in { TRUE }, c \in { None, "#0000ff" } }

\* What the last service call was, what it was given and what it gave back.
NoUpdate == [set |-> { }, name |-> None, default |-> FALSE, color |-> None, project |-> None]

PriorityOp(op, id, project, name, input, before, kind, value, exc) ==
    [op |-> op, id |-> id, project |-> project, name |-> name, input |-> input,
     before |-> before, kind |-> kind, value |-> value, exc |-> exc]

NoPriorityOp == PriorityOp("none", 0, None, None, NoUpdate, NoRow, "none", NoRow, "")

\* Most priority service calls in one behaviour.
MaxPriorityCalls == 3

InitPriority ==
    /\ priorities = { }
    /\ next_priority_id = 1
    /\ priority_calls = 0
    /\ priority_op = NoPriorityOp

\* Query.one_or_none() over the matching rows
one_or_none(rows) ==
    IF Cardinality(rows) > 1 THEN [kind |-> "raise", value |-> NoRow, exc |-> "MultipleResultsFound"]
    ELSE IF rows = { } THEN [kind |-> "return", value |-> NoRow, exc |-> ""]
    ELSE [kind |-> "return", value |-> CHOOSE r \in rows : TRUE, exc |-> ""]

get(rows, case_priority_id) ==
    one_or_none({ r \in rows : r.id = case_priority_id })

get_default(rows, project_id) ==
    one_or_none({ r \in rows : r.default /\ r.project = project_id })

get_default_or_raise(rows, project_id) ==
    LET case_priority == get_default(rows, project_id)
    IN  IF case_priority.kind = "return" /\ case_priority.value = NoRow
        THEN [kind |-> "raise", value |-> NoRow, exc |-> "ValidationError"]
        ELSE case_priority

get_by_name(rows, project_id, name) ==
    one_or_none({ r \in rows : r.name = name /\ r.project = project_id })

\* name = None stands for no case_priority_in or one without a name
get_by_name_or_default(rows, project_id, name) ==
    LET by_name == get_by_name(rows, project_id, name)
    IN  IF name # None /\ (by_name.kind = "raise" \/ by_name.value # NoRow)
        THEN by_name
        ELSE get_default_or_raise(rows, project_id)

\* the row update leaves: the name is not taken over
apply_update_no_name(row, case_priority_in) ==
    [row EXCEPT !.default = IF "default" \in case_priority_in.set THEN case_priority_in.default ELSE @,
                !.color = IF case_priority_in.color # None THEN case_priority_in.color ELSE @]

\* the row update leaves: update_data excludes project and color, and color
\* is taken over only when it is truthy
apply_update(row, case_priority_in) ==
    [row EXCEPT !.name = IF "name" \in case_priority_in.set THEN case_priority_in.name ELSE @,
                !.default = IF "default" \in case_priority_in.set THEN case_priority_in.default ELSE @,
                !.color = IF case_priority_in.color # None THEN case_priority_in.color ELSE @]

\* query.filter(id == case_priority_id).delete()
delete_rows(rows, case_priority_id) == { r \in rows : r.id # case_priority_id }

\* create(db_session, case_priority_in)
PriorityCreate(project, name, default, color) ==
    /\ next_priority_id <= MaxPriorities
    /\ priority_calls < MaxPriorityCalls
    /\ priority_calls' = priority_calls + 1
    /\ LET row == [id |-> next_priority_id, project |-> project, name |-> name,
                   default |-> default, color |-> color]
       IN  /\ priorities' = priorities \cup { row }
           /\ priority_op' = PriorityOp("create", row.id, project, name, NoUpdate, NoRow,
                                        "return", row, "")
    /\ next_priority_id' = next_priority_id + 1

\* update(db_session, case_priority, case_priority_in)
PriorityUpdate(row, case_priority_in) ==
    /\ row \in priorities
    /\ priority_calls < MaxPriorityCalls
    /\ priority_calls' = priority_calls + 1
    /\ LET updated == apply_update(row, case_priority_in)
       IN  /\ priorities' = (priorities \ { row }) \cup { updated }
           /\ priority_op' = PriorityOp("update", row.id, None, None, case_priority_in, row,
                                        "return", updated, "")
    /\ UNCHANGED next_priority_id

\* delete(db_session, case_priority_id) followed by get of the same id
PriorityDelete(case_priority_id) ==
    /\ priority_calls < MaxPriorityCalls
    /\ priority_calls' = priority_calls + 1
    /\ priorities' = delete_rows(priorities, case_priority_id)
    /\ LET after == get(priorities', case_priority_id)
       IN  priority_op' = PriorityOp("delete", case_priority_id, None, None, NoUpdate, NoRow,
                                     after.kind, after.value, after.exc)
    /\ UNCHANGED next_priority_id

\* get_by_name_or_default(db_session, project_id, case_priority_in)
PriorityByNameOrDefault(project_id, name) ==
    /\ priority_calls < MaxPriorityCalls
    /\ priority_calls' = priority_calls + 1
    /\ LET r == get_by_name_or_default(priorities, project_id, name)
       IN  priority_op' = PriorityOp("get_by_name_or_default", 0, project_id, name,
                                     NoUpdate, NoRow, r.kind, r.value, r.exc)
    /\ UNCHANGED <<priorities, next_priority_id>>

\* get_default(db_session, project_id)
PriorityDefault(project_id) ==
    /\ priority_calls < MaxPriorityCalls
    /\ priority_calls' = priority_calls + 1
    /\ LET r == get_default(priorities, project_id)
       IN  priority_op' = PriorityOp("get_default", 0, project_id, None, NoUpdate, NoRow,
                                     r.kind, r.value, r.exc)
    /\ UNCHANGED <<priorities, next_priority_id>>

NextPriority ==
    \/ \E project \in Projects, name \in PriorityNames, default \in BOOLEAN,
          color \in { None, "#0000ff" } :
          PriorityCreate(project, name, default, color) /\ UNCHANGED otherThanPriority
    \/ \E row \in priorities, case_priority_in \in PriorityUpdates :
          PriorityUpdate(row, case_priority_in) /\ UNCHANGED otherThanPriority
    \/ \E case_priority_id \in 1..MaxPriorities :
          PriorityDelete(case_priority_id) /\ UNCHANGED otherThanPriority
    \/ \E project_id \in Projects, name \in PriorityNames \cup { None } :
          PriorityByNameOrDefault(project_id, name) /\ UNCHANGED otherThanPriority
    \/ \E project_id \in Projects :
          PriorityDefault(project_id) /\ UNCHANGED otherThanPriority

----------------------------------------------------------------------------
(* get_thread_activity and get_channel_activity                            *)
(* (src/src/dispatch/plugins/dispatch_slack/service.py): the paging loop.  *)

ActivityFunctions == { "get_thread_activity", "get_channel_activity" }

ActivityEndpoint(fn) ==
    IF fn = "get_thread_activity" THEN "conversations.replies" ELSE "conversations.history"

\* A message: its ts, its user field (None when absent), whether it has bot_id.
Message(ts, user, bot) == [ts |-> ts, user |-> user, bot_id |-> bot]

\* The message lists a page can carry.
PageMessages ==
    { << >>,
      << Message(3, "U1", FALSE), Message(1, "U2", FALSE) >>,
      << Message(2, "U9", TRUE), Message(2, "U1", FALSE) >>,
      << Message(1, None, FALSE) >>,
      << Message(2, "U1", FALSE) >> }

Cursors == { "c1", "c2" }

\* Responses of the remote: not ok, ok without a messages field, and ok with
\* messages, with has_more and the next cursor.
Pages ==
    { [ok |-> FALSE, has_messages |-> FALSE, messages |-> << >>, has_more |-> FALSE,
       next_cursor |-> None],
      [ok |-> TRUE, has_messages |-> FALSE, messages |-> << >>, has_more |-> FALSE,
       next_cursor |-> None] } \cup
    { [ok |-> TRUE, has_messages |-> TRUE, messages |-> ms, has_more |-> FALSE,
       next_cursor |-> None] : ms \in PageMessages } \cup
    { [ok |-> TRUE, has_messages |-> TRUE, messages |-> ms, has_more |-> TRUE,
       next_cursor |-> c] : ms \in PageMessages, c \in Cursors }

\* Most pages the remote serves before its final page.
MaxPages == 2

\* (utc_dt, user_id) tuples compare by utc_dt, then by user_id
UserRank(user_id) == CASE user_id = "U1" -> 1 [] user_id = "U2" -> 2 [] OTHER -> 9

TupleLess(a, b) ==
    \/ a.utc_dt < b.utc_dt
    \/ a.utc_dt = b.utc_dt /\ UserRank(a.user_id) < UserRank(b.user_id)

\* heapq.nsmallest(len(result), result): the pushed tuples in ascending order
RECURSIVE nsmallest(_)
nsmallest(heap) ==
    IF Len(heap) = 0 THEN << >>
    ELSE LET i == CHOOSE i \in 1..Len(heap) :
                     \A j \in 1..Len(heap) :
                         ~TupleLess(heap[j], heap[i]) /\ (heap[j] = heap[i] => i <= j)
             rest == [k \in 1..(Len(heap) - 1) |-> IF k < i THEN heap[k] ELSE heap[k + 1]]
         IN  << heap[i] >> \o nsmallest(rest)

\* the tuples pushed for the messages of a page, bot messages included
RECURSIVE collect_with_bots(_)
collect_with_bots(messages) ==
    IF Len(messages) = 0 THEN << >>
    ELSE LET message == Head(messages)
         IN  (IF message.user # None
              THEN << [utc_dt |-> message.ts, user_id |-> message.user] >>
              ELSE << >>) \o collect_with_bots(Tail(messages))

\* the tuples pushed for the messages of a page
RECURSIVE collect(_)
collect(messages) ==
    IF Len(messages) = 0 THEN << >>
    ELSE LET message == Head(messages)
         IN  (IF ~message.bot_id /\ message.user # None
              THEN << [utc_dt |-> message.ts, user_id |-> message.user] >>
              ELSE << >>) \o collect(Tail(messages))

\* the pushes of a page that does not skip bot messages
push_messages_with_bots(heap, messages) == heap \o collect_with_bots(messages)

\* for message in response["messages"]: ... heapq.heappush(result, ...)
push_messages(heap, messages) == heap \o collect(messages)

NoActivity == [kind |-> "none", value |-> << >>, type |-> ""]

InitActivity ==
    /\ apc = "idle"
    /\ afn = ""
    /\ acursor = None
    /\ arequests = << >>
    /\ aresponses = << >>
    /\ aresult = << >>
    /\ ares = NoActivity

\* result = []; cursor = None
StartActivity(fn) ==
    /\ apc = "idle"
    /\ apc' = "fetching"
    /\ afn' = fn
    /\ acursor' = None
    /\ UNCHANGED <<arequests, aresponses, aresult, ares>>

\* one pass of the while loop: the make_call, the messages of the page, and
\* the break or the next cursor
FetchPage(page) ==
    /\ apc = "fetching"
    /\ Len(aresponses) < MaxPages \/ ~page.has_more
    /\ arequests' = Append(arequests, [endpoint |-> ActivityEndpoint(afn), cursor |-> acursor])
    /\ aresponses' = Append(aresponses, page)
    /\ afn' = afn
    /\ IF ~page.ok \/ ~page.has_messages
       THEN /\ apc' = "done"
            /\ ares' = [kind |-> "return", value |-> nsmallest(aresult), type |-> ""]
            /\ UNCHANGED <<aresult, acursor>>
       ELSE LET pushed == push_messages(aresult, page.messages)
            IN  /\ aresult' = pushed
                /\ IF ~page.has_more
                   THEN /\ apc' = "done"
                        /\ ares' = [kind |-> "return", value |-> nsmallest(pushed), type |-> ""]
                        /\ UNCHANGED acursor
                   ELSE /\ acursor' = page.next_cursor
                        /\ UNCHANGED <<apc, ares>>

\* the make_call of a pass raises
FetchRaises(type) ==
    /\ apc = "fetching"
    /\ arequests' = Append(arequests, [endpoint |-> ActivityEndpoint(afn), cursor |-> acursor])
    /\ apc' = "done"
    /\ ares' = [kind |-> "raise", value |-> << >>, type |-> type]
    /\ UNCHANGED <<afn, acursor, aresponses, aresult>>

NextActivity ==
    \/ \E fn \in ActivityFunctions : StartActivity(fn) /\ UNCHANGED otherThanActivity
    \/ \E page \in Pages : FetchPage(page) /\ UNCHANGED otherThanActivity
    \/ \E type \in { "SlackApiError", "RetryError" } :
          FetchRaises(type) /\ UNCHANGED otherThanActivity

----------------------------------------------------------------------------
(* What make_call gives its caller when the remote answers every attempt   *)
(* the same way: the response, the exception itself when should_retry      *)
(* refuses it, and tenacity's RetryError once the attempts are used up.    *)

make_call_raises(exc) == IF should_retry(exc) THEN RetryError ELSE exc

make_call_outcome(o) ==
    IF o.kind = "return" THEN o
    ELSE [kind |-> "raise", response |-> "", exc |-> make_call_raises(o.exc)]

SlackError(code) == [type |-> "SlackApiError", error |-> code, headers |-> NoHeaders]

Raises(exc) == [kind |-> "raise", response |-> "", exc |-> exc]

Returns(r) == [kind |-> "return", response |-> r, exc |-> NoExc]

----------------------------------------------------------------------------
(* add_users_to_conversation and chunks                                    *)
(* (src/src/dispatch/plugins/dispatch_slack/service.py).                   *)

\* NOTE api only allows 30 at a time.
InviteChunkSize == 30

\* Most full chunks in a user_ids list.
MaxChunks == 2

\* user_ids lists: n users, ascending or descending
UserIdLists ==
    { [i \in 1..n |-> IF up THEN i ELSE n + 1 - i] :
          n \in { m \in { InviteChunkSize * k + d : k \in 0..MaxChunks, d \in { 0 - 1, 0, 1 } } :
                      m >= 0 },
          up \in BOOLEAN }

\* how the remote answers the invite of a chunk
InviteAnswers ==
    { Returns("ok") } \cup
    { Raises(SlackError(code)) :
          code \in { "user_in_channel", "already_in_channel", "channel_not_found", "ratelimited" } }

\* ids[i : i + n]
chunk_at(ids, i, n) == SubSeq(ids, i + 1, Min(i + n, Len(ids)))

NoInviteResult == [kind |-> "none", exc |-> NoExc]

InitInvite ==
    /\ ipc = "idle"
    /\ invite_user_ids = << >>
    /\ invite_at = 0
    /\ invites = << >>
    /\ invite_answers = << >>
    /\ invite_res = NoInviteResult

\* add_users_to_conversation(client, conversation_id, user_ids)
AddUsersToConversation(ids) ==
    /\ ipc = "idle"
    /\ ipc' = "loop"
    /\ invite_user_ids' = ids
    /\ invite_at' = 0
    /\ UNCHANGED <<invites, invite_answers, invite_res>>

\* one pass of `for c in chunks(user_ids, 30)`: the invite and its handler
InviteChunk(answer) ==
    /\ ipc = "loop"
    /\ invite_at < Len(invite_user_ids)
    /\ LET c == chunk_at(invite_user_ids, invite_at, InviteChunkSize)
           o == make_call_outcome(answer)
       IN  /\ invites' = Append(invites, [endpoint |-> "conversations.invite", users |-> c])
           /\ invite_answers' = Append(invite_answers, answer)
           /\ IF o.kind = "raise" /\ ~IsInstance(o.exc, "SlackApiError")
              THEN /\ ipc' = "done"
                   /\ invite_res' = [kind |-> "raise", exc |-> o.exc]
                   /\ UNCHANGED invite_at
              ELSE /\ invite_at' = invite_at + InviteChunkSize
                   /\ UNCHANGED <<ipc, invite_res>>
    /\ UNCHANGED invite_user_ids

\* the generator is exhausted: the function returns None
InviteReturn ==
    /\ ipc = "loop"
    /\ invite_at >= Len(invite_user_ids)
    /\ ipc' = "done"
    /\ invite_res' = [kind |-> "return", exc |-> NoExc]
    /\ UNCHANGED <<invite_user_ids, invite_at, invites, invite_answers>>

NextInvite ==
    \/ \E ids \in UserIdLists : AddUsersToConversation(ids) /\ UNCHANGED otherThanInvite
    \/ \E answer \in InviteAnswers : InviteChunk(answer) /\ UNCHANGED otherThanInvite
    \/ InviteReturn /\ UNCHANGED otherThanInvite

----------------------------------------------------------------------------
(* remove_member_from_channel and is_member_in_channel                     *)
(* (src/src/dispatch/plugins/dispatch_slack/service.py).                   *)

ChannelUsers == { "U1", "U2" }

ConversationIds == { "C1", "C2" }

\* one call of the Slack API as the client sees it
ApiCall(api, channel, user) == [endpoint |-> api, channel |-> channel, user |-> user]

\* How the remote answers conversations.members: a response with or without
\* a members field, or an error on every attempt.
MembersAnswers ==
    { [kind |-> "return", has_members |-> TRUE, members |-> ms, exc |-> NoExc] :
          ms \in SUBSET ChannelUsers } \cup
    { [kind |-> "return", has_members |-> FALSE, members |-> { }, exc |-> NoExc] } \cup
    { [kind |-> "raise", has_members |-> FALSE, members |-> { }, exc |-> e] :
          e \in { SlackError("channel_not_found"), SlackError("user_not_in_channel"),
                  SlackError("channel_not_archived"), SlackError("ratelimited") } \cup TimeoutExcs }

\* How the remote answers conversations.kick.
KickAnswers ==
    { Returns("ok"), Raises(SlackError("channel_not_found")),
      Raises(SlackError("ratelimited")) }

\* is_member_in_channel taking a response for membership
is_member_in_channel_any(answer, user_id) ==
    [kind |-> "return", value |-> TRUE, exc |-> NoExc, log |-> "none"]

\* is_member_in_channel: the value returned or the exception raised, and the
\* level it logs at
is_member_in_channel(answer, user_id) ==
    IF answer.kind = "return"
    THEN [kind |-> "return", value |-> answer.has_members /\ user_id \in answer.members,
          exc |-> NoExc, log |-> "none"]
    ELSE LET e == make_call_raises(answer.exc)
         IN  IF IsInstance(e, "SlackApiError")
             THEN IF e.error \in { "channel_not_found", "user_not_in_channel" }
                  THEN [kind |-> "return", value |-> FALSE, exc |-> NoExc, log |-> "warning"]
                  ELSE [kind |-> "raise", value |-> FALSE, exc |-> e, log |-> "exception"]
             ELSE [kind |-> "raise", value |-> FALSE, exc |-> e, log |-> "none"]

\* Most removals in one behaviour.
MaxRemovals == 2

NoCheck == [kind |-> "none", value |-> FALSE, exc |-> NoExc, log |-> "none"]

NoKickResult == [kind |-> "none", response |-> "", exc |-> NoExc]

InitKick ==
    /\ kpc = "idle"
    /\ kuser = ""
    /\ kchannel = ""
    /\ kanswer = [kind |-> "none", has_members |-> FALSE, members |-> { }, exc |-> NoExc]
    /\ kcheck = NoCheck
    /\ kcalls = << >>
    /\ kres = NoKickResult
    /\ removals = 0

\* remove_member_from_channel up to and including the membership check
RemoveMember(conversation_id, user_id, answer) ==
    /\ kpc \in { "idle", "done" }
    /\ removals < MaxRemovals
    /\ removals' = removals + 1
    /\ kuser' = user_id
    /\ kchannel' = conversation_id
    /\ kanswer' = answer
    /\ LET member == is_member_in_channel(answer, user_id)
       IN  /\ kcheck' = member
           /\ kcalls' = << ApiCall("conversations.members", conversation_id, "") >>
           /\ IF member.kind = "raise"
              THEN kpc' = "done" /\ kres' = [kind |-> "raise", response |-> "", exc |-> member.exc]
              ELSE IF ~member.value
              THEN kpc' = "done" /\ kres' = [kind |-> "return", response |-> None, exc |-> NoExc]
              ELSE kpc' = "kicking" /\ kres' = NoKickResult

\* return make_call(client, conversations_kick, ...)
Kick(answer) ==
    /\ kpc = "kicking"
    /\ kpc' = "done"
    /\ kcalls' = Append(kcalls, ApiCall("conversations.kick", kchannel, kuser))
    /\ kres' = make_call_outcome(answer)
    /\ UNCHANGED <<kuser, kchannel, kanswer, kcheck, removals>>

NextKick ==
    \/ \E conversation_id \in ConversationIds, user_id \in ChannelUsers,
          answer \in MembersAnswers :
          RemoveMember(conversation_id, user_id, answer) /\ UNCHANGED otherThanKick
    \/ \E answer \in KickAnswers : Kick(answer) /\ UNCHANGED otherThanKick

----------------------------------------------------------------------------
(* delete_case (src/src/dispatch/case/views.py) and delete                 *)
(* (src/src/dispatch/case/service.py).                                      *)

DeleteCaseIds == { 1, 2 }

\* what a case can have outside the database
ExternalResources == { "ticket", "group", "storage" }

\* a case row; `referenced` says that another case or incident row refers to it
\* through a foreign key
CaseRow(present, referenced) == [present |-> present, referenced |-> referenced]

NoCaseRow == CaseRow(FALSE, FALSE)

NoDeleteResult ==
    [case_id |-> 0, status |-> 0, exc |-> "",
     row_before |-> NoCaseRow, external_before |-> { }]

InitDelete ==
    /\ case_rows = [id \in DeleteCaseIds |-> NoCaseRow]
    /\ external = [id \in DeleteCaseIds |-> { }]
    /\ delete_calls = << >>
    /\ delete_res = NoDeleteResult

\* a case comes to exist with its external resources
StoreCase(case_id, resources, referenced) ==
    /\ ~case_rows[case_id].present
    /\ case_rows' = [case_rows EXCEPT ![case_id] = CaseRow(TRUE, referenced)]
    /\ external' = [external EXCEPT ![case_id] = resources]
    /\ delete_calls' = << >>
    /\ delete_res' = NoDeleteResult

\* case_delete_flow: the external resources of the case that remain after the
\* flow has deleted the ones in `deleted`
case_delete_flow(resources, deleted) == resources \ deleted

\* delete: the row after the DELETE statement, and whether it raised
delete(row) ==
    IF row.referenced
    THEN [row |-> row, exc |-> "IntegrityError"]
    ELSE [row |-> NoCaseRow, exc |-> ""]

\* DELETE /{case_id}
DeleteCase(case_id, deleted) ==
    /\ case_rows[case_id].present
    /\ deleted \subseteq external[case_id]
    /\ LET deletion == delete(case_rows[case_id])
       IN  /\ external' = [external EXCEPT
                  ![case_id] = case_delete_flow(external[case_id], deleted)]
           /\ case_rows' = [case_rows EXCEPT ![case_id] = deletion.row]
           /\ delete_calls' = << "case_delete_flow", "delete" >>
           /\ delete_res' =
                  [case_id |-> case_id,
                   status |-> IF deletion.exc = "" THEN 200 ELSE 500,
                   exc |-> deletion.exc,
                   row_before |-> case_rows[case_id],
                   external_before |-> external[case_id]]

NextDelete ==
    \/ \E case_id \in DeleteCaseIds, resources \in SUBSET ExternalResources,
          referenced \in BOOLEAN :
          StoreCase(case_id, resources, referenced) /\ UNCHANGED otherThanDelete
    \/ \E case_id \in DeleteCaseIds, deleted \in SUBSET ExternalResources :
          DeleteCase(case_id, deleted) /\ UNCHANGED otherThanDelete

----------------------------------------------------------------------------
(* generate_read_in_summary (src/src/dispatch/ai/service.py).              *)

\* a subject is an incident or a case with an id; incident 1 and case 1 are
\* different subjects
Subjects == { [type |-> t, id |-> 1] : t \in { "incident", "case" } }

Summaries == { "s1", "s2" }

\* READ_IN_SUMMARY_CACHE_DURATION, in clock ticks
READ_IN_SUMMARY_CACHE_DURATION == 1

\* The clock stops here.
MaxTime == 2

\* Most summary events in one behaviour.
MaxSummaryEvents == 2

\* result.dict(): the details of a summary event written by the generation
dict(summary) == [truthy |-> TRUE, valid |-> TRUE, summary |-> summary]

\* details that are empty, and details that do not fit the ReadInSummary model
EmptyDetails == [truthy |-> FALSE, valid |-> FALSE, summary |-> ""]

MalformedDetails == [truthy |-> TRUE, valid |-> FALSE, summary |-> ""]

\* ReadInSummary(**details)
ReadInSummary(details) ==
    IF details.valid
    THEN [kind |-> "return", summary |-> details.summary]
    ELSE [kind |-> "raise", summary |-> ""]

SummaryEvent(kind, subject, started_at, details) ==
    [kind |-> kind, subject |-> subject, started_at |-> started_at, details |-> details]

NoEvent == SummaryEvent("none", [type |-> "", id |-> 0], 0, EmptyDetails)

\* event_service.get_recent_summary_event: the latest summary event of the
\* subject that is at most max_age_seconds old, or none
get_recent_summary_event(evs, subject, at, max_age_seconds) ==
    LET recent == { i \in 1..Len(evs) :
                       /\ evs[i].subject = subject
                       /\ evs[i].started_at >= at - max_age_seconds }
    IN  IF recent = { } THEN NoEvent
        ELSE evs[CHOOSE i \in recent : \A j \in recent : j <= i]

\* What the collaborators of one request do: whether each plugin is enabled,
\* whether the channel has a conversation, whether the prompt can be prepared,
\* and how chat_parse ends.
GenerationInput(genai_plugin, conversation_plugin, conversation, prepared, chat_parse) ==
    [genai_plugin |-> genai_plugin, conversation_plugin |-> conversation_plugin,
     conversation |-> conversation, prepared |-> prepared, chat_parse |-> chat_parse]

GenerationInputs ==
    { GenerationInput(FALSE, TRUE, TRUE, TRUE, "s1"),
      GenerationInput(TRUE, FALSE, TRUE, TRUE, "s1"),
      GenerationInput(TRUE, TRUE, FALSE, TRUE, "s1"),
      GenerationInput(TRUE, TRUE, TRUE, FALSE, "s1"),
      GenerationInput(TRUE, TRUE, TRUE, TRUE, "raise") } \cup
    { GenerationInput(TRUE, TRUE, TRUE, TRUE, summary) : summary \in Summaries }

NoSummaryResult ==
    [subject |-> [type |-> "", id |-> 0], at |-> 0, kind |-> "none", summary |-> "",
     calls |-> << >>, recent_event |-> NoEvent, events_before |-> << >>, logged |-> 0]

SummaryResult(subject, kind, summary, calls, recent_event, logged) ==
    [subject |-> subject, at |-> now, kind |-> kind, summary |-> summary,
     calls |-> calls, recent_event |-> recent_event, events_before |-> events,
     logged |-> logged]

\* the summary stored in the recent event, when there is one to return
cached_summary_never(recent_event) == [kind |-> "none", summary |-> ""]

cached_summary(recent_event) ==
    IF recent_event # NoEvent /\ recent_event.details.truthy
    THEN ReadInSummary(recent_event.details)
    ELSE [kind |-> "none", summary |-> ""]

InitSummary ==
    /\ now = 0
    /\ events = << >>
    /\ summary_res = NoSummaryResult

Tick ==
    /\ now < MaxTime
    /\ now' = now + 1
    /\ UNCHANGED <<events, summary_res>>

\* a summary event whose details this code cannot reuse comes to exist
LogOtherSummaryEvent(subject, details) ==
    /\ Len(events) < MaxSummaryEvents
    /\ events' = Append(events, SummaryEvent("other", subject, now, details))
    /\ UNCHANGED <<now, summary_res>>

GenerateReadInSummary(subject, in) ==
    LET recent_event ==
            get_recent_summary_event(events, subject, now, READ_IN_SUMMARY_CACHE_DURATION)
        stored == cached_summary(recent_event)
        Answer(kind, summary, calls) ==
            /\ summary_res' = SummaryResult(subject, kind, summary, calls, recent_event, 0)
            /\ UNCHANGED events
    IN  /\ UNCHANGED now
        /\ IF stored.kind = "return" THEN Answer("summary", stored.summary, << >>)
           ELSE IF ~in.genai_plugin THEN Answer("error", "", << >>)
           ELSE IF ~in.conversation_plugin THEN Answer("error", "", << >>)
           ELSE IF ~in.conversation THEN Answer("error", "", << "get_conversation" >>)
           ELSE IF ~in.prepared THEN Answer("raise", "", << "get_conversation" >>)
           ELSE IF in.chat_parse = "raise"
           THEN Answer("error", "", << "get_conversation", "chat_parse" >>)
           ELSE /\ Len(events) < MaxSummaryEvents
                /\ events' = Append(events,
                       SummaryEvent(IF subject.type = "incident"
                                    THEN "incident_event" ELSE "case_event",
                                    subject, now, dict(in.chat_parse)))
                /\ summary_res' =
                       SummaryResult(subject, "summary", in.chat_parse,
                                     << "get_conversation", "chat_parse" >>,
                                     recent_event, 1)

NextSummary ==
    \/ Tick /\ UNCHANGED otherThanSummary
    \/ \E subject \in Subjects, details \in { EmptyDetails, MalformedDetails } :
          LogOtherSummaryEvent(subject, details) /\ UNCHANGED otherThanSummary
    \/ \E subject \in Subjects, in \in GenerationInputs :
          GenerateReadInSummary(subject, in) /\ UNCHANGED otherThanSummary

----------------------------------------------------------------------------
(* get_user_profile_by_id and get_user_profile_by_email                    *)
(* (src/src/dispatch/plugins/dispatch_slack/service.py): the cached values *)
(* are dict objects, and a cache entry holds a reference to one.           *)

ProfileTokens == { "xoxb-A", "xoxb-B" }

ProfileUsers == { "U1", "U2" }

ProfileEmails == { "a@example.com", "b@example.com" }

\* users.lookupByEmail: the "user" part of the response
RemoteUser(email) ==
    IF email = "a@example.com" THEN [id |-> "U1", tz |-> "America/Los_Angeles"]
    ELSE [id |-> "U2", tz |-> "Europe/Berlin"]

\* a profile dict: the fields users.profile.get answered, and the tz key when
\* the dict has one
ProfileDict(user_id, has_tz, tz) ==
    [real_name |-> user_id, has_tz |-> has_tz, tz |-> tz]

\* users.profile.get: the "profile" part of the response; it has no tz key
RemoteProfile(user_id) == ProfileDict(user_id, FALSE, "")

NoProfile == ProfileDict("", FALSE, "")

NoUser == [id |-> "", tz |-> ""]

\* how the two remote calls of one lookup end
ProfileOutcomes == [users_lookup_by_email : { "return", "raise" },
                    users_profile_get : { "return", "raise" }]

NoProfileResult ==
    [fn |-> "", token |-> "", user_id |-> "", kind |-> "none", value |-> NoProfile]

InitProfile ==
    /\ profile_objects = [k \in ProfileTokens \X ProfileUsers |-> NoProfile]
    /\ info_by_email = [k \in ProfileTokens \X ProfileEmails |-> NoUser]
    /\ profile_by_email = [k \in ProfileTokens \X ProfileEmails |-> FALSE]
    /\ profile_res = NoProfileResult

\* profile["tz"] = user["tz"]: the dict the by-id cache refers to gets the key
set_tz(objects, key, tz) ==
    [objects EXCEPT ![key] = ProfileDict(@.real_name, TRUE, tz)]

\* _get_user_profile_by_id under lru_cache: the dict objects after the call
\* (the cache entry of key refers to objects[key]) and whether it raised
cached_profile_by_id(objects, key, outcome) ==
    IF objects[key] # NoProfile THEN [objects |-> objects, kind |-> "return"]
    ELSE IF outcome = "return"
    THEN [objects |-> [objects EXCEPT ![key] = RemoteProfile(key[2])], kind |-> "return"]
    ELSE [objects |-> objects, kind |-> "raise"]

\* get_user_profile_by_id(client, user_id)
GetUserProfileById(token, user_id, o) ==
    LET r == cached_profile_by_id(profile_objects, <<token, user_id>>, o.users_profile_get)
    IN  /\ profile_objects' = r.objects
        /\ profile_res' =
              [fn |-> "get_user_profile_by_id", token |-> token, user_id |-> user_id,
               kind |-> r.kind,
               value |-> IF r.kind = "return" THEN r.objects[<<token, user_id>>] ELSE NoProfile]
        /\ UNCHANGED <<info_by_email, profile_by_email>>

\* get_user_profile_by_email(client, email)
GetUserProfileByEmail(token, email, o) ==
    LET user == IF info_by_email[<<token, email>>] # NoUser
                THEN info_by_email[<<token, email>>]
                ELSE IF o.users_lookup_by_email = "return" THEN RemoteUser(email) ELSE NoUser
        key == <<token, user.id>>
        Result(kind, objects) ==
            profile_res' =
                [fn |-> "get_user_profile_by_email", token |-> token, user_id |-> user.id,
                 kind |-> kind,
                 value |-> IF kind = "return" THEN objects[key] ELSE NoProfile]
    IN  IF profile_by_email[<<token, email>>]
        THEN /\ Result("return", profile_objects)
             /\ UNCHANGED <<profile_objects, info_by_email, profile_by_email>>
        ELSE IF user = NoUser
        THEN /\ Result("raise", profile_objects)
             /\ UNCHANGED <<profile_objects, info_by_email, profile_by_email>>
        ELSE LET r == cached_profile_by_id(profile_objects, key, o.users_profile_get)
             IN  /\ info_by_email' = [info_by_email EXCEPT ![<<token, email>>] = user]
                 /\ IF r.kind = "raise"
                    THEN /\ Result("raise", r.objects)
                         /\ UNCHANGED <<profile_objects, profile_by_email>>
                    ELSE /\ profile_objects' = set_tz(r.objects, key, user.tz)
                         /\ profile_by_email' = [profile_by_email EXCEPT ![<<token, email>>] = TRUE]
                         /\ Result("return", set_tz(r.objects, key, user.tz))

NextProfile ==
    \/ \E token \in ProfileTokens, user_id \in ProfileUsers, o \in ProfileOutcomes :
          GetUserProfileById(token, user_id, o) /\ UNCHANGED otherThanProfile
    \/ \E token \in ProfileTokens, email \in ProfileEmails, o \in ProfileOutcomes :
          GetUserProfileByEmail(token, email, o) /\ UNCHANGED otherThanProfile

Init == InitCall /\ InitCache /\ InitRaceIdle /\ InitPrompt /\ InitResolve /\ InitCase /\ InitPriority /\ InitActivity /\ InitInvite /\ InitKick /\ InitDelete /\ InitSummary /\ InitProfile

InitRace == InitCall /\ InitCache /\ InitRacing /\ InitPrompt /\ InitResolve /\ InitCase /\ InitPriority /\ InitActivity /\ InitInvite /\ InitKick /\ InitDelete /\ InitSummary /\ InitProfile

SpecResolve == Init /\ [][NextResolve]_vars

SpecCase == Init /\ [][NextCase]_vars

SpecPrompt == Init /\ [][NextPrompt]_vars

SpecRace == InitRace /\ [][NextRace]_vars

InitEvict == InitCall /\ InitFilled /\ InitRaceIdle /\ InitPrompt /\ InitResolve /\ InitCase /\ InitPriority /\ InitActivity /\ InitInvite /\ InitKick /\ InitDelete /\ InitSummary /\ InitProfile

SpecEvict == InitEvict /\ [][NextEvict]_vars

SpecCall == Init /\ [][NextCall]_vars

SpecCache == Init /\ [][NextCache]_vars

SpecProfile == Init /\ [][NextProfile]_vars

SpecSummary == Init /\ [][NextSummary]_vars

SpecDelete == Init /\ [][NextDelete]_vars

SpecKick == Init /\ [][NextKick]_vars

SpecInvite == Init /\ [][NextInvite]_vars

SpecActivity == Init /\ [][NextActivity]_vars

SpecPriority == Init /\ [][NextPriority]_vars

----------------------------------------------------------------------------
(* Properties of make_call.                                                *)

Failed(o) == o.kind = "raise"

IsTimeout(o) == Failed(o) /\ o.exc.type \in {"TimeoutError", "Timeout", "ReadTimeout"}

IsSlackError(o) == Failed(o) /\ o.exc.type = "SlackApiError"

IsTerminal(o) == IsSlackError(o) /\ o.exc.error \in SlackAPIErrorCode

IsNonTerminal(o) == IsSlackError(o) /\ o.exc.error \notin SlackAPIErrorCode

IsOther(o) == Failed(o) /\ ~IsSlackError(o) /\ ~IsTimeout(o)

HasRetryAfter(o) == IsSlackError(o) /\ "Retry-After" \in DOMAIN o.exc.headers

Finished == pc \in {"returned", "raised"}

\* C1: whatever the remote operation does, one invocation of make_call
\* performs at most 5 calls to client.api_call.
C1_AtMostFiveCalls == Len(requests) <= 5 /\ Len(outcomes) = Len(requests)

C1_Witness == pc = "raised" /\ Len(requests) = 5

\* C2: after 5 failed retryable attempts the caller receives the exception
\* raised by the 5th attempt itself (a SlackApiError or a timeout).
C2_LastExceptionRaised ==
    (/\ pc = "raised"
     /\ Len(outcomes) = 5
     /\ \A k \in 1..5 : IsTimeout(outcomes[k]) \/ IsNonTerminal(outcomes[k]))
    => result.exc = outcomes[5].exc

\* C3: an attempt that raises a SlackApiError with a terminal code is the
\* last attempt: no later call is made, the call made for it is the only one
\* when it is the first attempt, and that SlackApiError reaches the caller.
C3_TerminalNoRetry ==
    \A k \in 1..Len(outcomes) :
        IsTerminal(outcomes[k]) =>
            /\ k = Len(outcomes)
            /\ Len(requests) = k
            /\ pc = "raised"
            /\ result.kind = "raise"
            /\ result.exc = outcomes[k].exc

C3_Witness ==
    /\ pc = "raised"
    /\ Len(requests) = 1
    /\ IsTerminal(outcomes[1])
    /\ result.exc.type = "SlackApiError"

\* C4: a timeout on attempt k < 5 is followed by attempt k+1, and when every
\* attempt times out exactly 5 attempts are made before make_call ends.
C4_TimeoutAlwaysRetried ==
    /\ \A k \in 1..Len(outcomes) :
          (IsTimeout(outcomes[k]) /\ k < 5) =>
              \/ Len(requests) > k
              \/ (pc = "calling" /\ attempt_number = k + 1 /\ Len(requests) = k)
    /\ (Finished /\ \A k \in 1..Len(outcomes) : IsTimeout(outcomes[k]))
          => Len(requests) = 5

C4_Witness ==
    /\ pc = "raised"
    /\ Len(requests) = 5
    /\ \A k \in 1..5 : IsTimeout(outcomes[k])
    /\ outcomes[1].exc.type = "ReadTimeout"

\* C5: a SlackApiError with a non-terminal code on attempt k < 5 is followed
\* by attempt k+1, and when a later attempt succeeds make_call returns that
\* attempt's response.
C5_NonTerminalRetried ==
    /\ \A k \in 1..Len(outcomes) :
          (IsNonTerminal(outcomes[k]) /\ k < 5) =>
              \/ Len(requests) > k
              \/ (pc = "calling" /\ attempt_number = k + 1 /\ Len(requests) = k)
    /\ \A k \in 1..Len(outcomes) :
          ~Failed(outcomes[k]) =>
              /\ k = Len(outcomes)
              /\ pc = "returned"
              /\ result.kind = "return"
              /\ result.response = outcomes[k].response

C5_Witness ==
    /\ pc = "returned"
    /\ Len(outcomes) = 3
    /\ IsNonTerminal(outcomes[1])
    /\ IsNonTerminal(outcomes[2])
    /\ result.response = "resp2"

\* C6: an attempt that raises an exception that is neither a SlackApiError
\* nor a timeout is the last attempt, and that exception reaches the caller
\* unchanged.
C6_OtherNotRetried ==
    \A k \in 1..Len(outcomes) :
        IsOther(outcomes[k]) =>
            /\ k = Len(outcomes)
            /\ Len(requests) = k
            /\ pc = "raised"
            /\ result.kind = "raise"
            /\ result.exc = outcomes[k].exc

C6_Witness ==
    /\ pc = "raised"
    /\ Len(requests) = 1
    /\ IsOther(outcomes[1])
    /\ result.exc.type = "ValueError"

\* The number of seconds a Retry-After header value of the model stands for.
Seconds(v) == CASE v = <<0>> -> 0 [] v = <<3>> -> 3 [] v = <<9, 0>> -> 90

\* C7: when the failed attempt k that is retried carries Retry-After = N,
\* the wait before attempt k+1 is exactly N seconds, whatever k is.
C7_RetryAfterHonoured ==
    /\ Len(sleeps) = (IF pc = "calling" THEN Len(outcomes) ELSE Len(outcomes) - 1)
          \/ (pc = "idle" /\ Len(sleeps) = 0)
    /\ \A k \in 1..Len(sleeps) :
          HasRetryAfter(outcomes[k]) =>
              sleeps[k] = Seconds(outcomes[k].exc.headers["Retry-After"])

C7_Witness ==
    /\ Len(sleeps) = 4
    /\ HasRetryAfter(outcomes[1]) /\ sleeps[1] = 90
    /\ HasRetryAfter(outcomes[3]) /\ sleeps[3] = 3
    /\ HasRetryAfter(outcomes[4]) /\ sleeps[4] = 0

\* C8: when the failed attempt k that is retried carries no Retry-After
\* header, the wait before attempt k+1 is min(2^(k-1), 60) seconds, that is
\* 1, 2, 4, 8 for the four waits, never below 1 and never above 60.
C8_ExponentialBackoff ==
    \A k \in 1..Len(sleeps) :
        ~HasRetryAfter(outcomes[k]) =>
            /\ k <= 4
            /\ sleeps[k] = <<1, 2, 4, 8>>[k]
            /\ sleeps[k] >= 1
            /\ sleeps[k] <= 60

C8_Witness ==
    /\ sleeps = <<1, 2, 4, 8>>
    /\ IsTimeout(outcomes[1])
    /\ IsSlackError(outcomes[2])
    /\ Finished

\* C9 as stated: every failed attempt, whatever its exception, produces one
\* log record, so there are as many log records as failed attempts.
C9_EveryFailureLogged ==
    Len(logs) = Cardinality({ k \in 1..Len(outcomes) : Failed(outcomes[k]) })

CaughtFailures == SelectSeq(outcomes, LAMBDA o : IsSlackError(o) \/ IsTimeout(o))

\* C9 amended: every failed attempt whose exception is a SlackApiError,
\* TimeoutError or Timeout produces one log record naming the exception, the
\* endpoint and the arguments; any other exception produces none.
C9_CaughtFailuresLogged ==
    /\ Len(logs) = Len(CaughtFailures)
    /\ \A i \in 1..Len(logs) :
          /\ logs[i].endpoint = endpoint
          /\ logs[i].kwargs = kwargs
          /\ logs[i].name = CaughtFailures[i].exc.type

C9_Witness ==
    /\ pc = "raised"
    /\ Len(outcomes) = 3
    /\ IsTimeout(outcomes[1])
    /\ IsSlackError(outcomes[2])
    /\ IsOther(outcomes[3])
    /\ Len(logs) = 2

----------------------------------------------------------------------------
(* Properties of the cached lookups.                                       *)

SamePair ==
    /\ prevOp.kind = "return"
    /\ lastOp.fn = prevOp.fn
    /\ lastOp.arg = prevOp.arg
    /\ lastOp.client # prevOp.client
    /\ Token(lastOp.client) = Token(prevOp.client)

\* C10: two lookups of one cached function with the same argument through
\* two different client objects holding the same token cause exactly one
\* remote call (the first one's, when nothing was cached for the token), and
\* the second returns the cached result; a lookup through a client whose
\* token has no cached entry makes a fresh remote call, and a result is never
\* one fetched under another token or argument.
C10_CacheKeyedByToken ==
    /\ SamePair =>
          /\ lastOp.calls = 0
          /\ lastOp.kind = "return"
          /\ lastOp.value = prevOp.value
          /\ prevOp.cold => prevOp.calls + lastOp.calls = 1
    /\ (lastOp.kind # "none" /\ lastOp.cold) => lastOp.calls = 1
    /\ (lastOp.kind = "return" /\ lastOp.fn # "does_user_exist") =>
          /\ lastOp.value.token = Token(lastOp.client)
          /\ lastOp.value.arg = lastOp.arg
    /\ \A fn \in CachedFunctions : \A i \in 1..Len(cache[fn]) :
          fn # "does_user_exist" =>
              /\ cache[fn][i].value.token = Token(cache[fn][i].wrapper)
              /\ cache[fn][i].value.arg = cache[fn][i].arg

C10_Witness ==
    /\ lookups = 2
    /\ SamePair
    /\ prevOp.cold
    /\ prevOp.client = "c1"
    /\ lastOp.client = "c2"
    /\ lastOp.fn = "get_user_info_by_email"
    /\ prevOp.calls = 1
    /\ lastOp.calls = 0
    /\ lastOp.value = prevOp.value
    /\ remote_calls = 1
    /\ Len(cache["get_user_info_by_email"]) = 1

\* C11 as stated: the cache never evicts, so once a lookup has succeeded for
\* a key every later lookup for that key is served from the cache without a
\* remote call, however many other keys were looked up in between.
C11_NeverEvicts ==
    (lastOp.kind # "none" /\ lastOp.seen) =>
        (lastOp.calls = 0 /\ lastOp.kind = "return" /\ lastOp.value = lastOp.prior)

\* C11 amended: each cache holds at most 128 entries, and once a lookup has
\* succeeded for a key a later lookup for that key is served from the cache
\* without a remote call provided fewer than 128 other distinct keys of that
\* function were looked up successfully since the key was last used.
C11_KeptWhileRecent ==
    /\ \A fn \in CachedFunctions : Len(cache[fn]) <= 128
    /\ (lastOp.kind # "none" /\ lastOp.seen /\ lastOp.others < 128) =>
          (lastOp.calls = 0 /\ lastOp.kind = "return" /\ lastOp.value = lastOp.prior)

C11_Witness ==
    /\ lastOp.fn = "get_user_info_by_id"
    /\ lastOp.client = "c2"
    /\ lastOp.arg = "u1"
    /\ lastOp.seen
    /\ lastOp.others = 127
    /\ lastOp.calls = 0
    /\ prevOp.client = "c3"
    /\ prevOp.calls = 1
    /\ Len(cache["get_user_info_by_id"]) = 128

----------------------------------------------------------------------------
(* Properties of two concurrent first lookups.                             *)

\* Entries of the raced function's cache stored under the raced key.
RaceEntries ==
    { i \in 1..Len(cache[race.fn]) :
        /\ Token(cache[race.fn][i].wrapper) = Token("c1")
        /\ cache[race.fn][i].arg = race.arg }

Fetched(t) == tcalls[t] = 1 /\ tres[t].kind = "return"

\* C12: when two callers sharing a token race on the first lookup of one
\* key, each makes at most one remote call and gets the result of its own
\* call (or the cached one), the cache ends up with one entry for the key,
\* the entry is the one stored first and the duplicate does not replace it,
\* and a later lookup of the key is served from it without a remote call.
C12_RaceBenign ==
    /\ \A t \in Threads : tcalls[t] <= 1
    /\ Cardinality(RaceEntries) <= 1
    /\ Cardinality({ t \in Threads : tstored[t] }) <= 1
    /\ \A t \in Threads :
          (tpc[t] = "done" /\ tres[t].kind = "return") =>
              /\ tres[t].value.token = Token(ThreadClient(t))
              /\ tres[t].value.arg = race.arg
              /\ tcalls[t] = 1 => tres[t].value = tval[t].value
              /\ RaceEntries # {}
              /\ tstored[t] => \A i \in RaceEntries : cache[race.fn][i].value = tres[t].value
              /\ tcalls[t] = 0 => \A i \in RaceEntries : cache[race.fn][i].value = tres[t].value
    /\ (AllDone /\ (\E t \in Threads : tres[t].kind = "return")) =>
          /\ Cardinality(RaceEntries) = 1
          /\ (lastOp.kind # "none" /\ lastOp.arg = race.arg
                /\ Token(lastOp.client) = Token("c1")) =>
                /\ lastOp.calls = 0
                /\ lastOp.kind = "return"
                /\ \E t \in Threads : tres[t].kind = "return" /\ lastOp.value = tres[t].value
                /\ \A t \in Threads : tstored[t] => lastOp.value = tres[t].value

C12_Witness ==
    /\ AllDone
    /\ Fetched("t1") /\ Fetched("t2")
    /\ tstored["t2"] /\ ~tstored["t1"]
    /\ tres["t1"].value # tres["t2"].value
    /\ race.fn = "get_user_info_by_id"
    /\ lastOp.client = "c1" /\ lastOp.arg = race.arg
    /\ lastOp.calls = 0
    /\ lastOp.value = tres["t2"].value
    /\ remote_calls = 2

----------------------------------------------------------------------------
(* Transport of make_call.                                                 *)

\* C13: make_call issues the remote call as GET with the arguments as query
\* parameters exactly when the endpoint is a member of SlackAPIGetEndpoints,
\* and otherwise as POST with the arguments as the JSON body; every retry of
\* one call uses the same verb and argument placement.
C13_VerbByEndpoint ==
    \A k \in 1..Len(requests) :
        /\ requests[k].endpoint = endpoint
        /\ (endpoint \in SlackAPIGetEndpoints) <=> (requests[k].http_verb = "GET")
        /\ (endpoint \notin SlackAPIGetEndpoints) <=> (requests[k].http_verb = "POST")
        /\ requests[k].http_verb = "GET" =>
              (requests[k].params = kwargs /\ requests[k].json = "None")
        /\ requests[k].http_verb = "POST" =>
              (requests[k].json = kwargs /\ requests[k].params = "None")
        /\ requests[k] = requests[1]

C13_Witness ==
    /\ Len(requests) = 3
    /\ endpoint = "users.info"
    /\ kwargs = "kw2"
    /\ requests[3].http_verb = "GET"
    /\ requests[3].params = "kw2"
    /\ IsTimeout(outcomes[1])
    /\ IsNonTerminal(outcomes[2])

----------------------------------------------------------------------------
(* Prompt token budget claims.                                             *)

\* The call returned a prompt string.
Prepared == ppc = "done" /\ pres.kind = "return"

\* The encoding the call tokenized with.
EncodingUsed == num_tokens_from_string(prompt, model_name).encoding

Truncated == \E i \in 1..Len(plogs) : plogs[i] = "truncated"

\* C14: for every prompt and model, the token sequence the returned prompt is
\* produced from (its decode is the output) has at most
\* get_model_token_limit(model) tokens.
C14_OutputWithinLimit ==
    Prepared =>
        /\ pres.text = Decode(EncodingUsed, pkept)
        /\ RLen(pkept) <= get_model_token_limit(model_name, default_buffer_percent)

C14_Witness ==
    /\ Prepared
    /\ model_name = "gpt-4o"
    /\ RLen(ptokens) = 121602
    /\ RLen(pkept) = 121600
    /\ Truncated

\* C15: a prompt of n tokens over the limit L loses exactly its last n - L
\* tokens: the result is the decode of the first L tokens.
C15_DropsExcessFromEnd ==
    Prepared =>
        LET n == RLen(ptokens)
            L == get_model_token_limit(model_name, default_buffer_percent)
        IN  n > L =>
                /\ RLen(pkept) = L
                /\ n - RLen(pkept) = n - L
                /\ pkept = RTake(ptokens, L)
                /\ pres.text = Decode(EncodingUsed, RTake(Encode(EncodingUsed, prompt), L))
                /\ Truncated

C15_Witness ==
    /\ Prepared
    /\ model_name = "gpt-4"
    /\ prompt = << [sym |-> "a", n |-> 121600], [sym |-> "b", n |-> 1], [sym |-> "c", n |-> 1] >>
    /\ ptokens = << [sym |-> 101, n |-> 121600], [sym |-> 102, n |-> 1], [sym |-> 103, n |-> 1] >>
    /\ pres.text = << [sym |-> "a", n |-> 121600] >>

\* C16: a prompt of at most the limit is returned unmodified; a prompt of
\* limit + 1 tokens loses exactly its last token.
C16_Boundary ==
    Prepared =>
        LET n == RLen(ptokens)
            L == get_model_token_limit(model_name, default_buffer_percent)
        IN  /\ n <= L => (pres.text = prompt /\ pkept = ptokens /\ ~Truncated)
            /\ n = L + 1 =>
                  /\ RLen(pkept) = n - 1
                  /\ pkept = RTake(ptokens, n - 1)
                  /\ pres.text = Decode(EncodingUsed, RTake(ptokens, n - 1))

C16_Witness ==
    /\ Prepared
    /\ model_name = "claude-3-7-sonnet-20250219"
    /\ prompt = << [sym |-> "a", n |-> 190000], [sym |-> "b", n |-> 1] >>
    /\ pres.text = << [sym |-> "a", n |-> 190000] >>

\* The table of the claim: the Claude 3.5 and 3.7 Sonnet entries are 200000,
\* gpt-4o and every model outside the table 128000.
ClaimedRawLimit(m) ==
    IF m \in { "claude-3-5-sonnet-20241022", "Claude-3-5-Sonnet-20241022",
               "claude-3-7-sonnet-20250219" }
    THEN 200000 ELSE 128000

\* C17: the limit used is int(0.95 * raw): 121600 for gpt-4o and for a model
\* outside the table, 190000 for the Claude 3.5 and 3.7 Sonnet entries.
C17_LimitValues ==
    Prepared =>
        /\ plimit = (ClaimedRawLimit(model_name) * 95) \div 100
        /\ plimit = IF ClaimedRawLimit(model_name) = 200000 THEN 190000 ELSE 121600

C17_Witness ==
    /\ Prepared
    /\ model_name = "unknown-model"
    /\ plimit = 121600
    /\ RLen(ptokens) = 121601
    /\ RLen(pkept) = 121600

\* C18: prepare_prompt_for_model raises no error for any prompt and model
\* name, and always returns a prompt string.
C18_NeverRaises ==
    ppc = "done" => pres.kind = "return"

----------------------------------------------------------------------------
(* emails_to_user_ids and case creation claims.                            *)

\* the outcomes of the visited participants, by kind of failure
NotFound(r) == r.outcome.kind = "raise" /\ r.outcome.type = "SlackApiError"
               /\ r.outcome.error = "users_not_found"

OtherSlackError(r) == r.outcome.kind = "raise" /\ r.outcome.type = "SlackApiError"
                      /\ r.outcome.error # "users_not_found"

Visited == { resolutions[i] : i \in 1..Len(resolutions) }

\* C19: emails_to_user_ids returns the ids of the distinct participants that
\* resolve; a users-not-found participant is skipped with a warning and the
\* others are still processed; a SlackApiError with any other error code is
\* raised to the caller.
C19_OtherErrorsRaised ==
    epc = "done" =>
        /\ (\E r \in Visited : OtherSlackError(r)) =>
               (eres.kind = "raise" /\ eres.type = "SlackApiError")
        /\ eres.kind = "return" =>
               /\ { eres.value[i] : i \in 1..Len(eres.value) } =
                      { r.outcome.id : r \in { v \in Visited : v.outcome.kind = "return" } }
               /\ \A i, j \in 1..Len(eres.value) : eres.value[i] = eres.value[j] => i = j
               /\ { r.participant : r \in Visited } = { participants[i] : i \in 1..Len(participants) }
               /\ \A r \in Visited : NotFound(r) =>
                      \E k \in 1..Len(elogs) :
                          elogs[k] = [level |-> "warning", participant |-> r.participant]

\* the request was for a case without a dedicated channel whose resolved case
\* type is missing or has no conversation target, and create was called
NeedsConversationTarget ==
    /\ response.status_code # 0
    /\ ~(response.case_in.reporter = None /\ response.case_in.project = None)
    /\ ~response.case_in.dedicated_channel
    /\ (response.case_type = NoCaseType \/ response.case_type.conversation_target = None)

\* C20: such a create raises a ValidationError and creates no case (no Case
\* row, no "Case created" event, no participant), and the create_case route
\* answers HTTP 422.
C20_NoTargetRejected ==
    NeedsConversationTarget =>
        /\ response.exc = "ValidationError"
        /\ Len(cases) = response.before.cases
        /\ Len(case_events) = response.before.events
        /\ Len(case_participants) = response.before.participants
        /\ response.status_code = 422

----------------------------------------------------------------------------
(* Case priority service claims.                                           *)

NamedRows(project_id, name) ==
    { r \in priorities : name # None /\ r.name = name /\ r.project = project_id }

DefaultRows(project_id) == { r \in priorities : r.default /\ r.project = project_id }

\* C21: get_by_name_or_default returns the project's priority of the given
\* name when one exists, else the project's default priority, and raises
\* ValidationError when the project has no default either.
C21_ByNameOrDefault ==
    priority_op.op = "get_by_name_or_default" =>
        LET named == NamedRows(priority_op.project, priority_op.name)
            defaults == DefaultRows(priority_op.project)
        IN  IF named # { }
            THEN priority_op.kind = "return" /\ priority_op.value \in named
            ELSE IF defaults # { }
            THEN priority_op.kind = "return" /\ priority_op.value \in defaults
            ELSE priority_op.kind = "raise" /\ priority_op.exc = "ValidationError"

\* fields other than color are taken over when set and kept otherwise, and
\* the project is kept
PlainFieldsFollow(row, new, case_priority_in) ==
    /\ new.id = row.id
    /\ new.name = IF "name" \in case_priority_in.set THEN case_priority_in.name ELSE row.name
    /\ new.default = IF "default" \in case_priority_in.set
                     THEN case_priority_in.default ELSE row.default
    /\ new.project = row.project

\* the priority as stored after the last call
Stored(case_priority_id) == { r \in priorities : r.id = case_priority_id }

DeleteThenGetNothing ==
    priority_op.op = "delete" =>
        /\ priority_op.kind = "return"
        /\ priority_op.value = NoRow
        /\ Stored(priority_op.id) = { }

\* C22 as claimed: update sets every field explicitly set in the input, leaves
\* the fields not set unchanged and never changes the project; after delete,
\* get of the id returns nothing.
C22_EverySetFieldSet ==
    /\ priority_op.op = "update" =>
          \A new \in Stored(priority_op.id) :
              /\ Stored(priority_op.id) = { priority_op.value }
              /\ PlainFieldsFollow(priority_op.before, new, priority_op.input)
              /\ new.color = IF "color" \in priority_op.input.set
                             THEN priority_op.input.color ELSE priority_op.before.color
    /\ DeleteThenGetNothing

\* C22 amended: as above, but the color is taken over only when the input
\* carries a non-empty color, and kept otherwise.
C22_UpdateFrame ==
    /\ priority_op.op = "update" =>
          /\ Stored(priority_op.id) = { priority_op.value }
          /\ \A new \in Stored(priority_op.id) :
              /\ PlainFieldsFollow(priority_op.before, new, priority_op.input)
              /\ new.color = IF priority_op.input.color # None
                             THEN priority_op.input.color ELSE priority_op.before.color
    /\ DeleteThenGetNothing

C22_Witness ==
    /\ priority_op.op = "update"
    /\ priority_op.input.set = { "name", "project" }
    /\ priority_op.before.name = "low"
    /\ priority_op.before.project = "p1"
    /\ priority_op.before.color = "#0000ff"
    /\ priority_op.value \in priorities
    /\ priority_op.value.name = "high"
    /\ priority_op.value.project = "p1"
    /\ priority_op.value.color = "#0000ff"

\* C29: each project has at most one priority with default set, so
\* get_default finds one priority or none, never several.
C29_OneDefaultPerProject ==
    /\ \A project \in Projects : Cardinality(DefaultRows(project)) <= 1
    /\ priority_op.op = "get_default" => priority_op.kind = "return"

----------------------------------------------------------------------------
(* Activity paging claim.                                                  *)

\* a response after which the loop stops
FinalPage(page) == ~page.ok \/ ~page.has_messages \/ ~page.has_more

\* positions (page, message) of the fetched messages with a user and no bot_id
CountedMessages ==
    { km \in (1..Len(aresponses)) \X (1..2) :
         /\ aresponses[km[1]].ok /\ aresponses[km[1]].has_messages
         /\ km[2] <= Len(aresponses[km[1]].messages)
         /\ aresponses[km[1]].messages[km[2]].user # None
         /\ ~aresponses[km[1]].messages[km[2]].bot_id }

TupleOf(km) ==
    [utc_dt |-> aresponses[km[1]].messages[km[2]].ts,
     user_id |-> aresponses[km[1]].messages[km[2]].user]

\* the requests follow the cursors, and only the last response is final
PagedByCursor ==
    /\ \A k \in 1..Len(arequests) :
          /\ arequests[k].endpoint = ActivityEndpoint(afn)
          /\ arequests[k].cursor = IF k = 1 THEN None ELSE aresponses[k - 1].next_cursor
    /\ \A k \in 1..Len(aresponses) :
          FinalPage(aresponses[k]) => (k = Len(aresponses) /\ apc = "done")
    /\ (apc = "done" /\ ares.kind = "return") =>
          (Len(aresponses) > 0 /\ FinalPage(aresponses[Len(aresponses)]))

ActivityReturned ==
    (apc = "done" /\ ares.kind = "return") =>
        /\ Len(arequests) = Len(aresponses)
        /\ Len(ares.value) = Cardinality(CountedMessages)
        /\ \A t \in { TupleOf(km) : km \in CountedMessages } :
              Cardinality({ i \in 1..Len(ares.value) : ares.value[i] = t }) =
              Cardinality({ km \in CountedMessages : TupleOf(km) = t })
        /\ \A i, j \in 1..Len(ares.value) :
              i < j => ares.value[i].utc_dt <= ares.value[j].utc_dt

\* C23: the activity functions fetch page after page, each request carrying
\* the previous response's next_cursor, stop at the first response that is
\* not ok, has no messages or has has_more false, return one tuple per
\* fetched message with a user and no bot_id in ascending timestamp order,
\* and terminate once the remote serves such a final page: the pass that
\* receives a final page is the last one, and every pass before it made
\* exactly one request.
C23_PagedActivity ==
    /\ PagedByCursor
    /\ ActivityReturned
    /\ apc = "fetching" => Len(arequests) = Len(aresponses)

C23_Witness ==
    /\ apc = "done"
    /\ afn = "get_channel_activity"
    /\ Len(aresponses) = 3
    /\ aresponses[1].messages = << Message(3, "U1", FALSE), Message(1, "U2", FALSE) >>
    /\ aresponses[1].next_cursor = "c2"
    /\ aresponses[2].messages = << Message(2, "U9", TRUE), Message(2, "U1", FALSE) >>
    /\ ~aresponses[3].ok
    /\ arequests[2].cursor = "c2"
    /\ ares.value = << [utc_dt |-> 1, user_id |-> "U2"], [utc_dt |-> 2, user_id |-> "U1"],
                       [utc_dt |-> 3, user_id |-> "U1"] >>

----------------------------------------------------------------------------
(* add_users_to_conversation claim.                                        *)

RECURSIVE Flatten(_)
Flatten(ss) == IF Len(ss) = 0 THEN << >> ELSE Head(ss).users \o Flatten(Tail(ss))

\* C24: one conversations.invite call per chunk of at most 30 user ids, every
\* input user id in exactly one chunk and in input order, and a SlackApiError
\* on a chunk, whatever its code, does not stop the invites of the remaining
\* chunks.
C24_EveryChunkInvited ==
    ipc = "done" =>
        /\ \A k \in 1..Len(invites) :
              Len(invites[k].users) >= 1 /\ Len(invites[k].users) <= InviteChunkSize
        /\ Flatten(invites) = invite_user_ids
        /\ invite_res.kind = "return"

----------------------------------------------------------------------------
(* remove_member_from_channel claim.                                       *)

Kicked == \E i \in 1..Len(kcalls) : kcalls[i].endpoint = "conversations.kick"

\* the membership check found the user absent, the channel missing or the bot
\* outside the channel
NotRemovable ==
    \/ kanswer.kind = "return" /\ ~(kanswer.has_members /\ kuser \in kanswer.members)
    \/ /\ kanswer.kind = "raise"
       /\ kanswer.exc \in { SlackError("channel_not_found"), SlackError("user_not_in_channel") }

----------------------------------------------------------------------------
(* delete_case claim.                                                      *)

\* C26: delete_case runs the external-resource delete flow first and then
\* deletes the case row; when the row deletion fails with IntegrityError it
\* answers HTTP 500 with the case and its external resources left as they were
\* before the request.
C26_FailedDeleteLeavesAll ==
    delete_res.status # 0 =>
        /\ delete_calls = << "case_delete_flow", "delete" >>
        /\ delete_res.status = 200 => ~case_rows[delete_res.case_id].present
        /\ delete_res.exc = "IntegrityError" =>
              /\ delete_res.status = 500
              /\ case_rows[delete_res.case_id] = delete_res.row_before
              /\ external[delete_res.case_id] = delete_res.external_before

----------------------------------------------------------------------------
(* generate_read_in_summary claim.                                         *)

\* the last request found a summary event young enough whose details parse
Reusable(ev) == ev # NoEvent /\ ev.details.truthy /\ ReadInSummary(ev.details).kind = "return"

\* the last request generated a summary
Generated ==
    /\ summary_res.kind = "summary"
    /\ ~Reusable(summary_res.recent_event)

----------------------------------------------------------------------------
(* Cached lookups whose remote call raises.                                *)

PlainCachedFunctions == CachedFunctions \ { "does_user_exist" }

\* the last lookup asked for the key of the lookup before it
SameKeyAgain ==
    /\ lastOp.fn = prevOp.fn
    /\ lastOp.arg = prevOp.arg
    /\ Token(lastOp.client) = Token(prevOp.client)

\* C28: a cached lookup (get_domain, get_user_info_by_id,
\* get_user_info_by_email, get_user_profile_by_id) whose remote call raises
\* stores nothing: the next lookup of the same key calls the remote operation
\* again, and the cache only ever returns results of successful calls.
C28_RaisedNotCached ==
    /\ (lastOp.fn \in PlainCachedFunctions /\ lastOp.kind = "raise") =>
          /\ lastOp.calls = 1
          /\ FindEntry(cache[lastOp.fn], lastOp.client, lastOp.arg) = 0
    /\ (prevOp.fn \in PlainCachedFunctions /\ prevOp.kind = "raise" /\ SameKeyAgain) =>
          lastOp.calls = 1
    /\ \A fn \in PlainCachedFunctions : \A i \in 1..Len(cache[fn]) :
          /\ cache[fn][i].value # NoValue
          /\ cache[fn][i].value.serial \in 1..remote_calls
          /\ cache[fn][i].value.endpoint = EndpointOf(fn)
    /\ (lastOp.fn \in PlainCachedFunctions /\ lastOp.kind = "return" /\ lastOp.calls = 0) =>
          /\ lastOp.value # NoValue
          /\ lastOp.value.serial \in 1..remote_calls

\* a lookup raised, and the next lookup of its key called the remote again and
\* returned
C28_Witness ==
    /\ prevOp.fn = "get_user_profile_by_id"
    /\ prevOp.kind = "raise"
    /\ prevOp.exc = "RetryError"
    /\ SameKeyAgain
    /\ lastOp.kind = "return"
    /\ lastOp.calls = 1
    /\ remote_calls = 2

----------------------------------------------------------------------------
(* get_user_profile_by_email claim.                                        *)

\* C30: get_user_profile_by_email leaves the results of the other lookups as
\* they were: get_user_profile_by_id for the same token and user id returns
\* the profile it would have returned had get_user_profile_by_email never
\* run; the tz field is only in the by-email result.
C30_ByIdUnaffected ==
    (profile_res.fn = "get_user_profile_by_id" /\ profile_res.kind = "return") =>
        profile_res.value = RemoteProfile(profile_res.user_id)

====
